---- MODULE Spec2Model ----
(***************************************************************************)
(* Reserved-IP orchestration engine of OpenRealmhyp.                       *)
(*                                                                         *)
(*   src/modules/doapi.py     TTL cache, retrying client, aggregator       *)
(*   src/reserved_ip_api.py   resource locator, replace orchestrator       *)
(*                                                                         *)
(* Time is kept as the age of each cache entry (time.time() - timestamp),  *)
(* advanced by every sleep and by the latency of every HTTP attempt, and   *)
(* capped at _cache_timeout: an entry that old is expired whatever its     *)
(* exact age.                                                              *)
(***************************************************************************)
EXTENDS Integers, Sequences, FiniteSets, TLC

\* ------------------------------------------------------------ constants

_cache_timeout == 30
retries == 3
http_timeout == 10
retry_sleep == 2
delete_sleep_base == 3
pending_sleep_base == 5
pending_sleep_step == 2
poll_sleep == 10
max_wait_time == 120
settle_sleep == 10
max_retries == 3
create_wait_step == 15
cache_key_prefix_len == 10

\* ------------------------------------------------------------ bounds

\* longest reserved-IP listing a provider response carries
MaxList == 2
\* number of do_token<i> credentials in the configuration
NumAccounts == 2
\* length of a bearer token
TokenLen == 11
\* highest poll count the history tells apart
MaxCounted == 3

\* ------------------------------------------------------------ configuration

TokenKeys == 1..NumAccounts

\* config.json: do_token<i>; tokens differ inside their first ten characters
TokenValue(i) == [j \in 1..TokenLen |-> IF j = 8 THEN i ELSE 0]

\* config.json: machines
Machines ==
    [m \in {"hyp-openrealm-us1"} |-> [id |-> 518135617, usedo |-> 1]]

\* machine names a request may carry
MachineNames == {"hyp-openrealm-us1", "no-such-machine"}

\* doapi.get_machine_info / get_machine_token / get_do_token
get_machine_info(machine_name) ==
    [id     |-> Machines[machine_name].id,
     token  |-> TokenValue(Machines[machine_name].usedo)]

\* ------------------------------------------------------------ provider data

Ips == {"X", "Y"}
NoDroplet == 0
DropletIds == {Machines[m].id : m \in DOMAIN Machines}

\* one reserved-IP record of a listing: rip['ip'], rip['droplet']['id']
ReservedIp == [ip : Ips, droplet : DropletIds \cup {NoDroplet}]

\* the ip is the natural key of a listing
DistinctIps(l) == \A i, j \in 1..Len(l) : i # j => l[i].ip # l[j].ip

Listings ==
    UNION {{l \in [1..n -> ReservedIp] : DistinctIps(l)} : n \in 0..MaxList}

\* ------------------------------------------------------------ Python values

None == [tag |-> "None", keys |-> {}, error |-> "", ip |-> ""]
True == [tag |-> "True", keys |-> {}, error |-> "", ip |-> ""]
False == [tag |-> "False", keys |-> {}, error |-> "", ip |-> ""]
ErrorDict(kind, extra) ==
    [tag |-> "dict", keys |-> {"error"} \cup extra, error |-> kind, ip |-> ""]
InfoDict(ip) == [tag |-> "dict", keys |-> {"ip"}, error |-> "", ip |-> ip]
EmptyDict == [tag |-> "dict", keys |-> {}, error |-> "", ip |-> ""]

\* bool(v)
Truthy(v) == v.tag = "True" \/ (v.tag = "dict" /\ v.keys # {})
isinstance_dict(v) == v.tag = "dict"
\* v.get('error') as a condition
get_error(v) == v.tag = "dict" /\ "error" \in v.keys /\ v.error # ""

\* ------------------------------------------------------------ TTL cache

_get_cache_key(token, endpoint) ==
    <<SubSeq(token, 1, cache_key_prefix_len), endpoint>>

\* the cache after d seconds have passed
Elapse(c, d) ==
    [k \in DOMAIN c |->
        [c[k] EXCEPT !.age = IF @ + d > _cache_timeout THEN _cache_timeout ELSE @ + d]]

\* CacheHit with an entry of exactly _cache_timeout seconds still served
CacheHit_inclusive(c, cache_key) ==
    cache_key \in DOMAIN c /\ c[cache_key].age <= _cache_timeout

CacheHit(c, cache_key) ==
    cache_key \in DOMAIN c /\ c[cache_key].age < _cache_timeout

\* _get_from_cache: the store it leaves (an expired entry is deleted)
_get_from_cache(c, cache_key) ==
    IF cache_key \in DOMAIN c /\ ~(c[cache_key].age < _cache_timeout)
    THEN [k \in DOMAIN c \ {cache_key} |-> c[k]]
    ELSE c

_set_cache(c, cache_key, data) ==
    (cache_key :> [data |-> data, age |-> 0]) @@ c

EmptyCache == [k \in {} |-> 0]

\* clear_cache that drops the expired entries only
clear_cache_expired_only(c) ==
    [k \in {j \in DOMAIN c : c[j].age < _cache_timeout} |-> c[k]]

\* doapi.clear_cache: the store it leaves
clear_cache(c) == EmptyCache

\* get_cache_status: cached_items
get_cache_status(c) == Cardinality(DOMAIN c)

\* ------------------------------------------------------------ provider responses

\* status 0: requests raised (transport failure or timeout), no response
TransportError == 0

\* seconds one HTTP attempt may take (timeout=10)
Latencies == {0, http_timeout}

\* GET /v2/reserved_ips
ListResponses ==
    {[status |-> 200, listing |-> l] : l \in Listings}
        \cup {[status |-> s, listing |-> <<>>] : s \in {500, TransportError}}

\* POST /v2/reserved_ips; body: what the 422 message says; ip "": the reply
\* carries no reserved_ip object
CreateResponses ==
    {[status |-> s, body |-> "", ip |-> i] : s \in {201, 202}, i \in Ips \cup {""}}
        \cup {[status |-> 422, body |-> b, ip |-> ""] :
                 b \in {"exceed your Reserved IP limit", "other", "unparsable"}}
        \cup {[status |-> s, body |-> "", ip |-> ""] : s \in {500, TransportError}}

\* POST /v2/reserved_ips/<ip>/actions; body "": the 201 reply carries no
\* action object
ActionResponses ==
    {[status |-> 201, body |-> b] : b \in {"action", ""}}
        \cup {[status |-> s, body |-> ""] : s \in {422, 500, TransportError}}

\* DELETE /v2/reserved_ips/<ip>
DeleteResponses ==
    {[status |-> s, body |-> ""] : s \in {204, 404, 500, TransportError}}
        \cup {[status |-> 422, body |-> b] : b \in {"pending event", "other", "unparsable"}}

\* ------------------------------------------------------------ retrying client
\* One pass through the retry loop of a client function, on attempt number
\* `attempt` (from 0) receiving `resp`: whether the function returns, the value
\* it returns, and the seconds it sleeps before the next attempt.

Return(v) == [returns |-> TRUE, value |-> v, sleep |-> 0, store |-> FALSE]
Retry(d) == [returns |-> FALSE, value |-> None, sleep |-> d, store |-> FALSE]

\* get_reserved_ips with the empty list of a failed fetch cached
get_reserved_ips_store_failure(attempt, resp) ==
    IF resp.status = 200
    THEN [Return(resp.listing) EXCEPT !.store = TRUE]
    ELSE IF attempt < retries - 1
         THEN Retry(retry_sleep)
         ELSE [Return(<<>>) EXCEPT !.store = TRUE]

\* get_reserved_ips with one more attempt than `retries`
get_reserved_ips_one_more(attempt, resp) ==
    IF resp.status = 200
    THEN [Return(resp.listing) EXCEPT !.store = TRUE]
    ELSE IF attempt < retries
         THEN Retry(retry_sleep)
         ELSE Return(<<>>)

\* doapi.get_reserved_ips, after its cache check; store: the listing is cached
\* when use_cache is set
get_reserved_ips(attempt, resp) ==
    IF resp.status = 200
    THEN [Return(resp.listing) EXCEPT !.store = TRUE]
    ELSE IF attempt < retries - 1
         THEN Retry(retry_sleep)
         ELSE Return(<<>>)

\* create_reserved_ip with the quota answer retried like any other failure
create_reserved_ip_retry_quota(attempt, resp) ==
    IF resp.status \in {201, 202}
    THEN Return(IF resp.ip = "" THEN EmptyDict ELSE InfoDict(resp.ip))
    ELSE IF resp.status = 422 /\ resp.body # "exceed your Reserved IP limit"
    THEN IF resp.body = "other"
         THEN Return(ErrorDict("unprocessable_entity", {"message"}))
         ELSE Return(ErrorDict("unprocessable_entity", {"status_code"}))
    ELSE IF attempt < retries - 1
         THEN Retry(retry_sleep)
         ELSE Return(None)

\* doapi.create_reserved_ip
create_reserved_ip(attempt, resp) ==
    IF resp.status \in {201, 202}
    THEN Return(IF resp.ip = "" THEN EmptyDict ELSE InfoDict(resp.ip))
    ELSE IF resp.status = 422
    THEN IF resp.body = "exceed your Reserved IP limit"
         THEN Return(ErrorDict("quota_exceeded", {"message"}))
         ELSE IF resp.body = "other"
         THEN Return(ErrorDict("unprocessable_entity", {"message"}))
         ELSE Return(ErrorDict("unprocessable_entity", {"status_code"}))
    ELSE IF attempt < retries - 1
         THEN Retry(retry_sleep)
         ELSE Return(None)

\* delete_reserved_ip with the flat retry sleep of the other client functions
delete_reserved_ip_flat_backoff(attempt, resp) ==
    IF resp.status = 204
    THEN Return(True)
    ELSE IF resp.status = 404
    THEN Return(ErrorDict("not_found", {"message", "ip"}))
    ELSE IF resp.status = 422
    THEN IF resp.body = "pending event"
         THEN IF attempt < retries - 1
              THEN Retry(pending_sleep_base + attempt * pending_sleep_step)
              ELSE Return(ErrorDict("pending_event", {"message", "ip"}))
         ELSE Return(ErrorDict("unprocessable_entity", {"message", "ip"}))
    ELSE IF attempt < retries - 1
         THEN Retry(retry_sleep)
         ELSE Return(False)

\* delete_reserved_ip with a 404 retried like a generic failure
delete_reserved_ip_retry_404(attempt, resp) ==
    IF resp.status = 204
    THEN Return(True)
    ELSE IF resp.status = 404 /\ ~(attempt < retries - 1)
    THEN Return(ErrorDict("not_found", {"message", "ip"}))
    ELSE IF resp.status = 422
    THEN IF resp.body = "pending event"
         THEN IF attempt < retries - 1
              THEN Retry(pending_sleep_base + attempt * pending_sleep_step)
              ELSE Return(ErrorDict("pending_event", {"message", "ip"}))
         ELSE Return(ErrorDict("unprocessable_entity", {"message", "ip"}))
    ELSE IF attempt < retries - 1
         THEN Retry(delete_sleep_base + attempt)
         ELSE Return(False)

\* delete_reserved_ip with the pending event retried under the generic backoff
delete_reserved_ip_generic_backoff(attempt, resp) ==
    IF resp.status = 204
    THEN Return(True)
    ELSE IF resp.status = 404
    THEN Return(ErrorDict("not_found", {"message", "ip"}))
    ELSE IF resp.status = 422 /\ resp.body # "pending event"
    THEN Return(ErrorDict("unprocessable_entity", {"message", "ip"}))
    ELSE IF attempt < retries - 1
         THEN Retry(delete_sleep_base + attempt)
         ELSE IF resp.status = 422
              THEN Return(ErrorDict("pending_event", {"message", "ip"}))
              ELSE Return(False)

\* doapi.delete_reserved_ip
delete_reserved_ip(attempt, resp) ==
    IF resp.status = 204
    THEN Return(True)
    ELSE IF resp.status = 404
    THEN Return(ErrorDict("not_found", {"message", "ip"}))
    ELSE IF resp.status = 422
    THEN IF resp.body = "pending event"
         THEN IF attempt < retries - 1
              THEN Retry(pending_sleep_base + attempt * pending_sleep_step)
              ELSE Return(ErrorDict("pending_event", {"message", "ip"}))
         ELSE Return(ErrorDict("unprocessable_entity", {"message", "ip"}))
    ELSE IF attempt < retries - 1
         THEN Retry(delete_sleep_base + attempt)
         ELSE Return(False)

\* result.get('action', {}) of a 201 reply
ActionDict == [tag |-> "dict", keys |-> {"id"}, error |-> "", ip |-> ""]

\* manage_reserved_ip_assignment with a sleep that grows with the attempt
manage_reserved_ip_assignment_growing_sleep(attempt, resp) ==
    IF resp.status = 201
    THEN Return(IF resp.body = "" THEN EmptyDict ELSE ActionDict)
    ELSE IF attempt < retries - 1
         THEN Retry(retry_sleep + attempt)
         ELSE Return(None)

\* doapi.manage_reserved_ip_assignment (assign_reserved_ip_to_droplet,
\* unassign_reserved_ip)
manage_reserved_ip_assignment(attempt, resp) ==
    IF resp.status = 201
    THEN Return(IF resp.body = "" THEN EmptyDict ELSE ActionDict)
    ELSE IF attempt < retries - 1
         THEN Retry(retry_sleep)
         ELSE Return(None)

\* a client call in progress or returned: the function, the attempt number of
\* the next HTTP attempt, what each attempt so far received, the backoff
\* sleeps taken, and the value returned (cached: it came from the TTL cache)
NoCall ==
    [fn |-> "none", token |-> <<>>, attempt |-> 0, log |-> <<>>, sleeps |-> <<>>,
     done |-> FALSE, value |-> None, cached |-> FALSE, use_cache |-> FALSE]

\* the call without its history, as the replace run holds it
Forget(c) == [c EXCEPT !.log = <<>>, !.sleeps = <<>>]

NewCall(fn, token, use_cache) ==
    [NoCall EXCEPT !.fn = fn, !.token = token, !.use_cache = use_cache]

\* what a response is logged as
ResponseKind(resp) ==
    IF resp.status = 422 THEN <<422, resp.body>> ELSE <<resp.status, "">>

\* the call after one more HTTP attempt with outcome r
AfterAttempt(c, resp, r) ==
    [c EXCEPT !.attempt = IF r.returns THEN @ ELSE @ + 1,
              !.log = Append(@, ResponseKind(resp)),
              !.sleeps = IF r.returns THEN @ ELSE Append(@, r.sleep),
              !.done = r.returns,
              !.value = r.value]

\* use_cache=True, the default of doapi.get_reserved_ips
use_cache_default == TRUE

\* doapi.get_reserved_ips up to its first HTTP attempt: the cache check, on
\* store c; gives the store and the call it leaves
CallGetReservedIps(c, token, use_cache) ==
    LET cache_key == _get_cache_key(token, "reserved_ips") IN
    IF use_cache /\ CacheHit(c, cache_key)
    THEN [cache |-> c,
          call  |-> [NewCall("get_reserved_ips", token, use_cache) EXCEPT
                        !.done = TRUE, !.value = c[cache_key].data, !.cached = TRUE]]
    ELSE [cache |-> IF use_cache THEN _get_from_cache(c, cache_key) ELSE c,
          call  |-> NewCall("get_reserved_ips", token, use_cache)]

\* ------------------------------------------------------------ state

VARIABLES
    cache,                  \* doapi._cache: cache key -> [data, age]
    pc,                     \* the replace run's position
    call,                   \* the client call the run is waiting on
    machine,                \* machine_details of the run: id, token
    current_reserved_ip,    \* replace_reserved_ip locals
    delete_success,
    wait_time,
    attempt,
    new_reserved_ip_info,
    last_error,
    result,                 \* the response the run returned
    polls,                  \* history: polls made by each wait loop, polls
                            \* answered from the cache
    creates,                \* history: what each create call of the run returned
    create_sleeps,          \* history: the run's sleeps between create calls
    mock,                   \* history: the provider has so far answered as the
                            \* happy-path provider does
    client,                 \* a client function called on its own
    agg_pc,                 \* get_all_tokens_reserved_ips: position
    agg_use_cache,          \* its use_cache argument
    tasks,                  \* its fetch_token_data tasks, per token key
    all_results,            \* the value it returned
    route,                  \* the request a flask route is handling, and its
                            \* response
    config,                 \* config.json: do_token<i>, per token key
    threads,                \* request threads inside get_reserved_ips, statement
                            \* by statement through _get_from_cache
    runs,                   \* replace_reserved_ip runs served at the same time
    requests                \* history: the delete and first create request each
                            \* of those runs has made, and whether a request of
                            \* another run was made between the two

runVars ==
    <<pc, call, machine, current_reserved_ip, delete_success, wait_time, attempt,
      new_reserved_ip_info, last_error, result>>
histVars == <<polls, creates, create_sleeps, mock>>
aggVars == <<client, agg_pc, agg_use_cache, tasks, all_results, route>>
concVars == <<config, threads, runs, requests>>
vars == <<cache, runVars, histVars, aggVars, concVars>>

\* ------------------------------------------------------------ responses of the API

\* no request: the route's name, its <reserved_ip> argument, whether its scan
\* of the aggregated results is over, the token key the scan found, the
\* cached_items it reports and its status code
NoRoute ==
    [name |-> "none", reserved_ip |-> "", scanned |-> FALSE,
     found_token_key |-> 0, cached_items |-> 0, code |-> 0]

NoResult ==
    [success |-> FALSE, kind |-> "none", code |-> 0, details |-> {},
     error_type |-> "", last_error |-> None, old_reserved_ip |-> "",
     new_reserved_ip |-> ""]

\* error_response(message, code, details); kind names the message
error_response(kind, code, error_type, err) ==
    [NoResult EXCEPT !.kind = kind, !.code = code,
                     !.details = IF error_type = "" THEN {}
                                 ELSE {"error_type"} \cup
                                      (IF error_type = "create_failed_after_retries"
                                       THEN {"retries_attempted", "last_error", "suggestion"}
                                       ELSE {"suggestion", "original_message"}),
                     !.error_type = error_type, !.last_error = err]

success_response(old_ip, new_ip) ==
    [NoResult EXCEPT !.success = TRUE, !.kind = "completed", !.code = 200,
                     !.old_reserved_ip = old_ip, !.new_reserved_ip = new_ip]

\* ------------------------------------------------------------ resource locator

\* the records of a listing bound to droplet_id, in listing order
BoundTo(reserved_ips, droplet_id) ==
    SelectSeq(reserved_ips, LAMBDA rip : rip.droplet # NoDroplet /\ rip.droplet = droplet_id)

\* find_machine_reserved_ip, given the listing: the first bound ip, "" for None
find_machine_reserved_ip(reserved_ips, droplet_id) ==
    IF BoundTo(reserved_ips, droplet_id) = <<>>
    THEN ""
    ELSE BoundTo(reserved_ips, droplet_id)[1].ip

\* any(rip.get('ip') == reserved_ip for rip in reserved_ips)
ip_exists(reserved_ips, reserved_ip) ==
    \E i \in 1..Len(reserved_ips) : reserved_ips[i].ip = reserved_ip

\* ------------------------------------------------------------ replace orchestrator

\* how a poll count is recorded: counts above MaxCounted are recorded as it
Counted(n) == IF n > MaxCounted THEN MaxCounted ELSE n

\* what a value returned by create_reserved_ip is recorded as
Kind(v) ==
    IF v.tag = "None" THEN "None"
    ELSE IF v.error # "" THEN v.error
    ELSE IF v.keys = {} THEN "empty"
    ELSE "created"

\* delete_accepted as `delete_success is True`
delete_accepted_is_true(v) == v.tag = "True"

\* replace_reserved_ip: `if not delete_success` is not taken
delete_accepted(v) == Truthy(v)

\* create_branch without the quota_exceeded return
create_branch_retry_quota(info, a) ==
    IF Truthy(info) /\ ~isinstance_dict(info)
    THEN "break"
    ELSE IF isinstance_dict(info) /\ get_error(info)
    THEN IF a < max_retries - 1 THEN "retry" ELSE "exhausted"
    ELSE "break"

\* create_branch with `attempt < max_retries` before the retry
create_branch_one_more(info, a) ==
    IF Truthy(info) /\ ~isinstance_dict(info)
    THEN "break"
    ELSE IF isinstance_dict(info) /\ get_error(info)
    THEN IF info.error = "quota_exceeded"
         THEN "quota_exceeded"
         ELSE IF a < max_retries THEN "retry" ELSE "exhausted"
    ELSE "break"

\* replace_reserved_ip: what the create loop does with the value of one
\* create call, on loop index a
create_branch(info, a) ==
    IF Truthy(info) /\ ~isinstance_dict(info)
    THEN "break"
    ELSE IF isinstance_dict(info) /\ get_error(info)
    THEN IF info.error = "quota_exceeded"
         THEN "quota_exceeded"
         ELSE IF a < max_retries - 1 THEN "retry" ELSE "exhausted"
    ELSE "break"

\* replace_reserved_ip: the check after the create loop
create_failed(info) ==
    ~Truthy(info) \/ (isinstance_dict(info) /\ "error" \in info.keys)

\* last_error or new_reserved_ip_info or {"message": ...}
error_details(err, info) ==
    IF Truthy(err) THEN err
    ELSE IF Truthy(info) THEN info
    ELSE [EmptyDict EXCEPT !.keys = {"message"}]

\* the provider answers as the happy-path provider does: the machine has a
\* reserved IP, the delete is accepted, every listing after it lacks the old
\* IP, the create is accepted with another IP, every listing after that shows
\* the new IP bound to the machine
MockList(resp) ==
    /\ resp.status = 200
    /\ CASE pc = "locate" ->
              find_machine_reserved_ip(resp.listing, machine.id) # ""
         [] pc = "confirm_delete" ->
              /\ ~ip_exists(resp.listing, current_reserved_ip)
              /\ find_machine_reserved_ip(resp.listing, machine.id) = ""
         [] pc = "confirm_create" ->
              /\ ~ip_exists(resp.listing, current_reserved_ip)
              /\ find_machine_reserved_ip(resp.listing, machine.id) = new_reserved_ip_info.ip
         [] OTHER -> FALSE
MockDelete(resp) == resp.status = 204
MockCreate(resp) ==
    resp.status \in {201, 202} /\ resp.ip # "" /\ resp.ip # current_reserved_ip

\* ReplaceStart with a name the configuration lacks served by the default
\* credential instead of raising
ReplaceStart_default_machine ==
    /\ pc = "idle"
    /\ \E machine_name \in MachineNames :
         LET m == IF machine_name \in DOMAIN Machines
                  THEN get_machine_info(machine_name)
                  ELSE [id |-> 0, token |-> TokenValue(1)]
             n == CallGetReservedIps(cache, m.token, use_cache_default)
         IN /\ machine' = m
            /\ pc' = "locate"
            /\ cache' = n.cache
            /\ call' = n.call
    /\ UNCHANGED <<current_reserved_ip, delete_success, wait_time, attempt,
                   new_reserved_ip_info, last_error, result>>
    /\ UNCHANGED <<histVars, aggVars>>
    /\ UNCHANGED concVars

\* get_machine_details raises for a name the configuration lacks; else step 1
\* starts: find_machine_reserved_ip calls get_reserved_ips
ReplaceStart ==
    /\ pc = "idle"
    /\ \E machine_name \in MachineNames :
         IF machine_name \notin DOMAIN Machines
         THEN /\ pc' = "done"
              /\ result' = error_response("exception", 400, "", None)
              /\ UNCHANGED <<cache, call, machine>>
         ELSE LET m == get_machine_info(machine_name)
                  n == CallGetReservedIps(cache, m.token, use_cache_default)
              IN /\ machine' = m
                 /\ pc' = "locate"
                 /\ cache' = n.cache
                 /\ call' = n.call
                 /\ UNCHANGED result
    /\ UNCHANGED <<current_reserved_ip, delete_success, wait_time, attempt,
                   new_reserved_ip_info, last_error>>
    /\ UNCHANGED <<histVars, aggVars>>
    /\ UNCHANGED concVars

\* one HTTP attempt of get_reserved_ips
ListAttempt ==
    /\ call.fn = "get_reserved_ips" /\ ~call.done
    /\ \E resp \in ListResponses, lat \in Latencies :
         LET r == get_reserved_ips(call.attempt, resp)
             cache_key == _get_cache_key(call.token, "reserved_ips")
             c1 == Elapse(cache, lat)
             c2 == IF r.store /\ call.use_cache
                   THEN _set_cache(c1, cache_key, r.value)
                   ELSE c1
         IN /\ cache' = Elapse(c2, r.sleep)
            /\ call' = Forget(AfterAttempt(call, resp, r))
            /\ mock' = (mock /\ MockList(resp))
    /\ UNCHANGED <<pc, machine, current_reserved_ip, delete_success, wait_time,
                   attempt, new_reserved_ip_info, last_error, result>>
    /\ UNCHANGED <<polls, creates, create_sleeps, aggVars>>
    /\ UNCHANGED concVars

\* LocateDone without the check of current_reserved_ip
LocateDone_unchecked ==
    /\ pc = "locate" /\ call.done
    /\ current_reserved_ip' = find_machine_reserved_ip(call.value, machine.id)
    /\ pc' = "delete"
    /\ call' = NewCall("delete_reserved_ip", machine.token, FALSE)
    /\ UNCHANGED <<cache, machine, delete_success, wait_time, attempt,
                   new_reserved_ip_info, last_error, result>>
    /\ UNCHANGED <<histVars, aggVars>>
    /\ UNCHANGED concVars

\* step 1 ends; step 2 starts: doapi.delete_reserved_ip
LocateDone ==
    /\ pc = "locate" /\ call.done
    /\ LET found == find_machine_reserved_ip(call.value, machine.id) IN
         IF found = ""
         THEN /\ pc' = "done"
              /\ result' = error_response("no_current_ip", 400, "", None)
              /\ call' = NoCall
              /\ UNCHANGED current_reserved_ip
         ELSE /\ current_reserved_ip' = found
              /\ pc' = "delete"
              /\ call' = NewCall("delete_reserved_ip", machine.token, FALSE)
              /\ UNCHANGED result
    /\ UNCHANGED <<cache, machine, delete_success, wait_time, attempt,
                   new_reserved_ip_info, last_error>>
    /\ UNCHANGED <<histVars, aggVars>>
    /\ UNCHANGED concVars

\* one HTTP attempt of delete_reserved_ip
DeleteAttempt ==
    /\ call.fn = "delete_reserved_ip" /\ ~call.done
    /\ \E resp \in DeleteResponses, lat \in Latencies :
         LET r == delete_reserved_ip(call.attempt, resp) IN
         /\ cache' = Elapse(cache, lat + r.sleep)
         /\ call' = Forget(AfterAttempt(call, resp, r))
         /\ mock' = (mock /\ MockDelete(resp))
    /\ UNCHANGED <<pc, machine, current_reserved_ip, delete_success, wait_time,
                   attempt, new_reserved_ip_info, last_error, result>>
    /\ UNCHANGED <<polls, creates, create_sleeps, aggVars>>
    /\ UNCHANGED concVars

\* DeleteDone with a refused delete sent back to step 1
DeleteDone_relocate ==
    /\ pc = "delete" /\ call.done
    /\ delete_success' = call.value
    /\ LET n == CallGetReservedIps(cache, machine.token, use_cache_default) IN
       IF ~delete_accepted(call.value)
       THEN /\ pc' = "locate"
            /\ cache' = n.cache
            /\ call' = n.call
            /\ UNCHANGED <<result, wait_time>>
       ELSE /\ pc' = "confirm_delete"
            /\ wait_time' = 0
            /\ cache' = n.cache
            /\ call' = n.call
            /\ UNCHANGED result
    /\ UNCHANGED <<machine, current_reserved_ip, attempt, new_reserved_ip_info,
                   last_error>>
    /\ UNCHANGED <<histVars, aggVars>>
    /\ UNCHANGED concVars

\* step 2 ends; step 3 starts: wait_for_reserved_ip_deletion makes its first poll
DeleteDone ==
    /\ pc = "delete" /\ call.done
    /\ delete_success' = call.value
    /\ IF ~delete_accepted(call.value)
       THEN /\ pc' = "done"
            /\ result' = error_response("delete_failed", 400, "", None)
            /\ call' = NoCall
            /\ UNCHANGED <<cache, wait_time>>
       ELSE LET n == CallGetReservedIps(cache, machine.token, use_cache_default) IN
            /\ pc' = "confirm_delete"
            /\ wait_time' = 0
            /\ cache' = n.cache
            /\ call' = n.call
            /\ UNCHANGED result
    /\ UNCHANGED <<machine, current_reserved_ip, attempt, new_reserved_ip_info,
                   last_error>>
    /\ UNCHANGED <<histVars, aggVars>>
    /\ UNCHANGED concVars

\* wait_for_reserved_ip_deletion: one pass of its loop on the listing it got,
\* with wait_time w: it returns True, polls again after a sleep, or (the loop
\* ends after the sleep) returns False
wait_for_reserved_ip_deletion(reserved_ips, reserved_ip, w) ==
    IF ~ip_exists(reserved_ips, reserved_ip)
    THEN "True"
    ELSE IF w + poll_sleep < max_wait_time THEN "poll" ELSE "False"

\* after_deletion_wait without the check of delete_confirmed
after_deletion_wait_unchecked(delete_confirmed) == "settle"

\* replace_reserved_ip: `if not delete_confirmed` returns 408
after_deletion_wait(delete_confirmed) ==
    IF ~delete_confirmed THEN "delete_timeout" ELSE "settle"

\* ConfirmDeletePoll that polls again without adding to wait_time
ConfirmDeletePoll_uncounted ==
    /\ pc = "confirm_delete" /\ call.done
    /\ polls' = [polls EXCEPT !.deletion = Counted(@ + 1),
                              !.cached = @ \/ call.cached]
    /\ LET outcome == wait_for_reserved_ip_deletion(call.value, current_reserved_ip,
                                                    wait_time)
           c == Elapse(cache, poll_sleep)
           n == CallGetReservedIps(c, machine.token, use_cache_default)
       IN CASE outcome = "poll" ->
                 /\ cache' = n.cache
                 /\ call' = n.call
                 /\ UNCHANGED <<pc, result, wait_time>>
            [] OTHER ->
                 /\ wait_time' = IF outcome = "False" THEN wait_time + poll_sleep
                                 ELSE wait_time
                 /\ cache' = IF outcome = "False" THEN c ELSE cache
                 /\ call' = NoCall
                 /\ IF after_deletion_wait(outcome = "True") = "settle"
                    THEN /\ pc' = "settle"
                         /\ UNCHANGED result
                    ELSE /\ pc' = "done"
                         /\ result' = error_response("delete_timeout", 408, "", None)
    /\ UNCHANGED <<machine, current_reserved_ip, delete_success, attempt,
                   new_reserved_ip_info, last_error>>
    /\ UNCHANGED <<creates, create_sleeps, mock, aggVars>>
    /\ UNCHANGED concVars

\* step 3: one pass of the loop of wait_for_reserved_ip_deletion, and what
\* replace_reserved_ip does when it returns
ConfirmDeletePoll ==
    /\ pc = "confirm_delete" /\ call.done
    /\ polls' = [polls EXCEPT !.deletion = Counted(@ + 1),
                              !.cached = @ \/ call.cached]
    /\ LET outcome == wait_for_reserved_ip_deletion(call.value, current_reserved_ip,
                                                    wait_time)
           c == Elapse(cache, poll_sleep)
           n == CallGetReservedIps(c, machine.token, use_cache_default)
       IN CASE outcome = "poll" ->
                 /\ wait_time' = wait_time + poll_sleep
                 /\ cache' = n.cache
                 /\ call' = n.call
                 /\ UNCHANGED <<pc, result>>
            [] OTHER ->
                 /\ wait_time' = IF outcome = "False" THEN wait_time + poll_sleep
                                 ELSE wait_time
                 /\ cache' = IF outcome = "False" THEN c ELSE cache
                 /\ call' = NoCall
                 /\ IF after_deletion_wait(outcome = "True") = "settle"
                    THEN /\ pc' = "settle"
                         /\ UNCHANGED result
                    ELSE /\ pc' = "done"
                         /\ result' = error_response("delete_timeout", 408, "", None)
    /\ UNCHANGED <<machine, current_reserved_ip, delete_success, attempt,
                   new_reserved_ip_info, last_error>>
    /\ UNCHANGED <<creates, create_sleeps, mock, aggVars>>
    /\ UNCHANGED concVars

\* SettleDelay without the sleep
SettleDelay_no_pause ==
    /\ pc = "settle"
    /\ cache' = cache
    /\ pc' = "create"
    /\ attempt' = 0
    /\ new_reserved_ip_info' = None
    /\ last_error' = None
    /\ call' = NewCall("create_reserved_ip", machine.token, FALSE)
    /\ UNCHANGED <<machine, current_reserved_ip, delete_success, wait_time, result>>
    /\ UNCHANGED <<histVars, aggVars>>
    /\ UNCHANGED concVars

\* step 4, the settle pause, and the first create call of step 5
SettleDelay ==
    /\ pc = "settle"
    /\ cache' = Elapse(cache, settle_sleep)
    /\ pc' = "create"
    /\ attempt' = 0
    /\ new_reserved_ip_info' = None
    /\ last_error' = None
    /\ call' = NewCall("create_reserved_ip", machine.token, FALSE)
    /\ UNCHANGED <<machine, current_reserved_ip, delete_success, wait_time, result>>
    /\ UNCHANGED <<histVars, aggVars>>
    /\ UNCHANGED concVars

\* one HTTP attempt of create_reserved_ip
CreateAttempt ==
    /\ call.fn = "create_reserved_ip" /\ ~call.done
    /\ \E resp \in CreateResponses, lat \in Latencies :
         LET r == create_reserved_ip(call.attempt, resp) IN
         /\ cache' = Elapse(cache, lat + r.sleep)
         /\ call' = Forget(AfterAttempt(call, resp, r))
         /\ mock' = (mock /\ MockCreate(resp))
    /\ UNCHANGED <<pc, machine, current_reserved_ip, delete_success, wait_time,
                   attempt, new_reserved_ip_info, last_error, result>>
    /\ UNCHANGED <<polls, creates, create_sleeps, aggVars>>
    /\ UNCHANGED concVars

\* step 5: the create loop from the value of a create call on, the check
\* after the loop, and the first poll of step 6
CreateDone ==
    /\ pc = "create" /\ call.done
    /\ LET info == call.value
           branch == create_branch(info, attempt)
           err == IF branch = "break" THEN last_error ELSE info
       IN
         /\ new_reserved_ip_info' = info
         /\ last_error' = err
         /\ creates' = Append(creates, Kind(info))
         /\ CASE branch = "quota_exceeded" ->
                   /\ pc' = "done"
                   /\ result' = error_response("quota_exceeded", 400, "quota_exceeded", None)
                   /\ call' = NoCall
                   /\ UNCHANGED <<cache, attempt, wait_time, create_sleeps>>
              [] branch = "retry" ->
                   /\ cache' = Elapse(cache, (attempt + 1) * create_wait_step)
                   /\ create_sleeps' = Append(create_sleeps, (attempt + 1) * create_wait_step)
                   /\ attempt' = attempt + 1
                   /\ call' = NewCall("create_reserved_ip", machine.token, FALSE)
                   /\ UNCHANGED <<pc, result, wait_time>>
              [] OTHER ->
                   IF create_failed(info)
                   THEN /\ pc' = "done"
                        /\ result' = error_response("create_failed_after_retries", 400,
                                         "create_failed_after_retries",
                                         error_details(err, info))
                        /\ call' = NoCall
                        /\ UNCHANGED <<cache, attempt, wait_time, create_sleeps>>
                   ELSE LET n == CallGetReservedIps(cache, machine.token, use_cache_default) IN
                        /\ pc' = "confirm_create"
                        /\ wait_time' = 0
                        /\ cache' = n.cache
                        /\ call' = n.call
                        /\ UNCHANGED <<attempt, result, create_sleeps>>
    /\ UNCHANGED <<machine, current_reserved_ip, delete_success>>
    /\ UNCHANGED <<polls, mock, aggVars>>
    /\ UNCHANGED concVars

\* wait_for_reserved_ip_creation with `while wait_time <= max_wait_time`
wait_for_reserved_ip_creation_one_more(reserved_ips, droplet_id, w) ==
    IF find_machine_reserved_ip(reserved_ips, droplet_id) # ""
    THEN "found"
    ELSE IF w + poll_sleep <= max_wait_time THEN "poll" ELSE "None"

\* wait_for_reserved_ip_creation: one pass of its loop on the listing that
\* find_machine_reserved_ip got, with wait_time w: it returns the ip found,
\* polls again after a sleep, or (the loop ends after the sleep) returns None
wait_for_reserved_ip_creation(reserved_ips, droplet_id, w) ==
    IF find_machine_reserved_ip(reserved_ips, droplet_id) # ""
    THEN "found"
    ELSE IF w + poll_sleep < max_wait_time THEN "poll" ELSE "None"

\* after_creation_wait without the check of confirmed_new_ip
after_creation_wait_unchecked(confirmed_new_ip) == "completed"

\* replace_reserved_ip: `if not confirmed_new_ip` returns 408
after_creation_wait(confirmed_new_ip) ==
    IF confirmed_new_ip = "" THEN "create_timeout" ELSE "completed"

\* step 6: one pass of the loop of wait_for_reserved_ip_creation, and what
\* replace_reserved_ip does when it returns (step 7)
ConfirmCreatePoll ==
    /\ pc = "confirm_create" /\ call.done
    /\ polls' = [polls EXCEPT !.creation = Counted(@ + 1),
                              !.cached = @ \/ call.cached]
    /\ LET outcome == wait_for_reserved_ip_creation(call.value, machine.id, wait_time)
           confirmed_new_ip == IF outcome = "found"
                               THEN find_machine_reserved_ip(call.value, machine.id)
                               ELSE ""
           c == Elapse(cache, poll_sleep)
           n == CallGetReservedIps(c, machine.token, use_cache_default)
       IN CASE outcome = "poll" ->
                 /\ wait_time' = wait_time + poll_sleep
                 /\ cache' = n.cache
                 /\ call' = n.call
                 /\ UNCHANGED <<pc, result>>
            [] OTHER ->
                 /\ wait_time' = IF outcome = "None" THEN wait_time + poll_sleep
                                 ELSE wait_time
                 /\ cache' = IF outcome = "None" THEN c ELSE cache
                 /\ call' = NoCall
                 /\ pc' = "done"
                 /\ result' = IF after_creation_wait(confirmed_new_ip) = "completed"
                              THEN success_response(current_reserved_ip, confirmed_new_ip)
                              ELSE error_response("create_timeout", 408, "", None)
    /\ UNCHANGED <<machine, current_reserved_ip, delete_success, attempt,
                   new_reserved_ip_info, last_error>>
    /\ UNCHANGED <<creates, create_sleeps, mock, aggVars>>
    /\ UNCHANGED concVars

\* the request threads of the threaded server that use the cache together
NumThreads == 2
Threads == 1..NumThreads

\* a thread serving no request: its position, the locals data and timestamp
\* (as an age) of _get_from_cache, the attempt of get_reserved_ips
NoThread == [pc |-> "idle", data |-> <<>>, age |-> 0, attempt |-> 0]

\* two replace requests for one machine, served at the same time
Runs == {1, 2}

\* no replace request: the position of the run and its locals
NoRun ==
    [pc |-> "idle", current_reserved_ip |-> "", wait_time |-> 0, attempt |-> 0]

\* a run that has made no request
NoRequests == [made |-> {}, crossed |-> FALSE]

\* the history after run r makes its delete or its first create request
RequestMade(req, r, kind) ==
    [x \in Runs |->
        IF x = r THEN [req[x] EXCEPT !.made = @ \cup {kind}]
        ELSE IF req[x].made = {"delete"} THEN [req[x] EXCEPT !.crossed = TRUE]
        ELSE req[x]]

\* POST /api/cache/clear from another request thread
ClearCache ==
    /\ cache' = EmptyCache
    /\ UNCHANGED <<runVars, histVars, aggVars>>
    /\ UNCHANGED concVars

Init ==
    /\ cache = EmptyCache
    /\ pc = "idle"
    /\ call = NoCall
    /\ machine = [id |-> 0, token |-> <<>>]
    /\ current_reserved_ip = ""
    /\ delete_success = None
    /\ wait_time = 0
    /\ attempt = 0
    /\ new_reserved_ip_info = None
    /\ last_error = None
    /\ result = NoResult
    /\ polls = [deletion |-> 0, creation |-> 0, cached |-> FALSE]
    /\ creates = <<>>
    /\ create_sleeps = <<>>
    /\ mock = TRUE
    /\ client = NoCall
    /\ agg_pc = "idle"
    /\ agg_use_cache = TRUE
    /\ tasks = <<>>
    /\ all_results = <<>>
    /\ route = NoRoute
    /\ config = [k \in TokenKeys |-> TokenValue(k)]
    /\ threads = [t \in Threads |-> NoThread]
    /\ runs = [r \in Runs |-> NoRun]
    /\ requests = [r \in Runs |-> NoRequests]

Next ==
    \/ ReplaceStart
    \/ ListAttempt
    \/ LocateDone
    \/ DeleteAttempt
    \/ DeleteDone
    \/ ConfirmDeletePoll
    \/ SettleDelay
    \/ CreateAttempt
    \/ CreateDone
    \/ ConfirmCreatePoll
    \/ ClearCache

Spec == Init /\ [][Next]_vars

\* what every step of the run changes, and only a step of the run: its
\* phase, the position of its client call, or a loop counter
runProgress == <<pc, call.fn, call.attempt, call.done, wait_time, attempt>>

\* every HTTP attempt returns or times out, and the event loop resumes the
\* run after each of them and after each sleep: a run that can take a step
\* takes one (weak fairness of the steps of the run)
SpecLive == Init /\ [][Next]_vars /\ WF_runProgress(Next)

\* ------------------------------------------------------------ a client call on its own

ClientFunctions ==
    {"get_reserved_ips", "create_reserved_ip", "delete_reserved_ip",
     "manage_reserved_ip_assignment"}

\* the responses the endpoint of a client function may give
Responses(fn) ==
    CASE fn = "get_reserved_ips" -> ListResponses
      [] fn = "create_reserved_ip" ->
            {[r EXCEPT !.ip = IF @ = "" THEN "" ELSE "X"] : r \in CreateResponses}
      [] fn = "delete_reserved_ip" -> DeleteResponses
      [] fn = "manage_reserved_ip_assignment" -> ActionResponses

\* one pass through the retry loop of client function fn
ClientLoop(fn, a, resp) ==
    CASE fn = "get_reserved_ips" -> get_reserved_ips(a, resp)
      [] fn = "create_reserved_ip" -> create_reserved_ip(a, resp)
      [] fn = "delete_reserved_ip" -> delete_reserved_ip(a, resp)
      [] fn = "manage_reserved_ip_assignment" -> manage_reserved_ip_assignment(a, resp)

\* doapi.get_do_token(1), the credential of the single-account routes
ClientToken == TokenValue(1)

\* a request handler calls a client function
ClientCall ==
    /\ client.fn = "none"
    /\ \E fn \in ClientFunctions, use_cache \in BOOLEAN :
         IF fn = "get_reserved_ips"
         THEN LET n == CallGetReservedIps(cache, ClientToken, use_cache) IN
              /\ cache' = n.cache
              /\ client' = n.call
         ELSE /\ use_cache = FALSE
              /\ client' = NewCall(fn, ClientToken, FALSE)
              /\ UNCHANGED cache
    /\ UNCHANGED <<runVars, histVars, agg_pc, agg_use_cache, tasks, all_results, route>>
    /\ UNCHANGED concVars

\* ClientAttempt with the cache invalidated by a create or delete that succeeds
ClientAttempt_invalidating ==
    /\ client.fn # "none" /\ ~client.done
    /\ \E resp \in Responses(client.fn), lat \in Latencies :
         LET r == ClientLoop(client.fn, client.attempt, resp)
             cache_key == _get_cache_key(client.token, "reserved_ips")
             c1 == Elapse(cache, lat)
             c2 == IF r.store /\ client.use_cache
                   THEN _set_cache(c1, cache_key, r.value)
                   ELSE IF resp.status \in {201, 202, 204}
                   THEN [k \in DOMAIN c1 \ {cache_key} |-> c1[k]]
                   ELSE c1
         IN /\ cache' = Elapse(c2, r.sleep)
            /\ client' = AfterAttempt(client, resp, r)
    /\ UNCHANGED <<runVars, histVars, agg_pc, agg_use_cache, tasks, all_results, route>>
    /\ UNCHANGED concVars

\* one HTTP attempt of the client function
ClientAttempt ==
    /\ client.fn # "none" /\ ~client.done
    /\ \E resp \in Responses(client.fn), lat \in Latencies :
         LET r == ClientLoop(client.fn, client.attempt, resp)
             cache_key == _get_cache_key(client.token, "reserved_ips")
             c1 == Elapse(cache, lat)
             c2 == IF r.store /\ client.use_cache
                   THEN _set_cache(c1, cache_key, r.value)
                   ELSE c1
         IN /\ cache' = Elapse(c2, r.sleep)
            /\ client' = AfterAttempt(client, resp, r)
    /\ UNCHANGED <<runVars, histVars, agg_pc, agg_use_cache, tasks, all_results, route>>
    /\ UNCHANGED concVars

\* the caller takes the value
ClientReturn ==
    /\ client.done
    /\ client' = NoCall
    /\ UNCHANGED <<cache, runVars, histVars, agg_pc, agg_use_cache, tasks, all_results, route>>
    /\ UNCHANGED concVars

NextClient ==
    \/ ClientCall
    \/ ClientAttempt
    \/ ClientReturn
    \/ ClearCache

SpecClient == Init /\ [][NextClient]_vars

\* ------------------------------------------------------------ multi-account aggregator

\* get_reserved_ips catches every exception of an attempt and returns []
get_reserved_ips_raises == FALSE

\* fetch_token_data: the dict it returns for what get_reserved_ips did
fetch_token_data(token_key, raised, reserved_ips) ==
    IF ~raised
    THEN [token_key |-> token_key, reserved_ips |-> reserved_ips,
          reserved_ips_count |-> Len(reserved_ips), status |-> "success",
          error |-> ""]
    ELSE [token_key |-> token_key, reserved_ips |-> <<>>,
          reserved_ips_count |-> 0, status |-> "failed", error |-> "str(e)"]

NoTaskResult ==
    [token_key |-> 0, reserved_ips |-> <<>>, reserved_ips_count |-> 0,
     status |-> "pending", error |-> ""]

\* a task of the gather: its get_reserved_ips call, the dict it returned, and
\* (history) whether every HTTP attempt of the call failed
NewTask == [call |-> NoCall, result |-> NoTaskResult, exhausted |-> FALSE]

\* the task whose call has become c
TaskAfter(t, token_key, c, all_failed) ==
    [call |-> c,
     result |-> IF c.done
                THEN fetch_token_data(token_key, get_reserved_ips_raises, c.value)
                ELSE t.result,
     exhausted |-> c.done /\ all_failed]

\* the listings an account holds while the aggregator runs: none, one
\* reserved IP bound to a machine, one unassigned
AccountListings ==
    {l \in Listings :
        \/ l = <<>>
        \/ Len(l) = 1 /\ ((l[1].ip = "X") <=> (l[1].droplet # NoDroplet))}

\* GET /v2/reserved_ips of an account
AccountResponses == {r \in ListResponses : r.listing \in AccountListings}

\* a request calls get_all_tokens_reserved_ips: one task per do_token<i>
AggStart ==
    /\ agg_pc = "idle"
    /\ \E use_cache \in BOOLEAN : agg_use_cache' = use_cache
    /\ tasks' = [k \in TokenKeys |-> NewTask]
    /\ agg_pc' = "gather"
    /\ all_results' = <<>>
    /\ UNCHANGED <<cache, runVars, histVars, client, route>>
    /\ UNCHANGED concVars

\* AggTaskStart with get_reserved_ips called with its default use_cache
AggTaskStart_default_cache(k) ==
    /\ agg_pc = "gather"
    /\ tasks[k].call.fn = "none"
    /\ LET n == CallGetReservedIps(cache, TokenValue(k), use_cache_default) IN
         /\ cache' = n.cache
         /\ tasks' = [tasks EXCEPT ![k] = TaskAfter(@, k, n.call, FALSE)]
    /\ UNCHANGED <<runVars, histVars, client, agg_pc, agg_use_cache, all_results, route>>
    /\ UNCHANGED concVars

\* task k starts: get_reserved_ips up to its cache check
AggTaskStart(k) ==
    /\ agg_pc = "gather"
    /\ tasks[k].call.fn = "none"
    /\ LET n == CallGetReservedIps(cache, TokenValue(k), agg_use_cache) IN
         /\ cache' = n.cache
         /\ tasks' = [tasks EXCEPT ![k] = TaskAfter(@, k, n.call, FALSE)]
    /\ UNCHANGED <<runVars, histVars, client, agg_pc, agg_use_cache, all_results, route>>
    /\ UNCHANGED concVars

\* one HTTP attempt of task k, taking one of the latencies lats
TaskAttempt(k, lats) ==
    /\ agg_pc = "gather"
    /\ tasks[k].call.fn # "none" /\ ~tasks[k].call.done
    /\ \E resp \in AccountResponses, lat \in lats :
         LET c == tasks[k].call
             r == get_reserved_ips(c.attempt, resp)
             cache_key == _get_cache_key(c.token, "reserved_ips")
             c1 == Elapse(cache, lat)
             c2 == IF r.store /\ c.use_cache
                   THEN _set_cache(c1, cache_key, r.value)
                   ELSE c1
         IN /\ cache' = Elapse(c2, r.sleep)
            /\ tasks' = [tasks EXCEPT ![k] =
                            TaskAfter(@, k, Forget(AfterAttempt(c, resp, r)),
                                      resp.status # 200)]
    /\ UNCHANGED <<runVars, histVars, client, agg_pc, agg_use_cache, all_results, route>>
    /\ UNCHANGED concVars

\* AggReturn as soon as one task is done, with the dicts gathered so far
AggReturn_partial ==
    /\ agg_pc = "gather"
    /\ \E k \in TokenKeys : tasks[k].call.done
    /\ all_results' = [k \in {j \in TokenKeys : tasks[j].call.done} |-> tasks[k].result]
    /\ agg_pc' = "returned"
    /\ UNCHANGED <<cache, runVars, histVars, client, agg_use_cache, tasks, route>>
    /\ UNCHANGED concVars

AggTaskAttempt(k) == TaskAttempt(k, Latencies)

\* asyncio.gather returns; the dicts are keyed by their token_key
AggReturn ==
    /\ agg_pc = "gather"
    /\ \A k \in TokenKeys : tasks[k].call.done
    /\ all_results' = [k \in {tasks[j].result.token_key : j \in TokenKeys} |->
                          tasks[k].result]
    /\ agg_pc' = "returned"
    /\ UNCHANGED <<cache, runVars, histVars, client, agg_use_cache, tasks, route>>
    /\ UNCHANGED concVars

NextAgg ==
    \/ AggStart
    \/ \E k \in TokenKeys : AggTaskStart(k)
    \/ \E k \in TokenKeys : AggTaskAttempt(k)
    \/ AggReturn
    \/ ClearCache

SpecAgg == Init /\ [][NextAgg]_vars

\* ------------------------------------------------------------ the TTL cache over time

\* one second passes with no request in progress
Tick ==
    /\ client.fn = "none"
    /\ \E k \in DOMAIN cache : cache[k].age < _cache_timeout
    /\ cache' = Elapse(cache, 1)
    /\ UNCHANGED <<runVars, histVars, aggVars>>
    /\ UNCHANGED concVars

NextTTL ==
    \/ ClientCall
    \/ ClientAttempt
    \/ ClientReturn
    \/ ClearCache
    \/ Tick

SpecTTL == Init /\ [][NextTTL]_vars

\* ------------------------------------------------------------ the cache routes

\* the route's response has been sent
RouteReturn ==
    /\ route.code # 0
    /\ route' = NoRoute
    /\ UNCHANGED <<cache, runVars, histVars, client, agg_pc, agg_use_cache, tasks,
                   all_results>>
    /\ UNCHANGED concVars

\* POST /api/cache/clear
RouteClearCache ==
    /\ route.name = "none"
    /\ cache' = clear_cache(cache)
    /\ route' = [NoRoute EXCEPT !.name = "clear_cache", !.code = 200]
    /\ UNCHANGED <<runVars, histVars, client, agg_pc, agg_use_cache, tasks,
                   all_results>>
    /\ UNCHANGED concVars

\* GET /api/cache/status
RouteCacheStatus ==
    /\ route.name = "none"
    /\ route' = [NoRoute EXCEPT !.name = "cache_status", !.code = 200,
                                !.cached_items = get_cache_status(cache)]
    /\ UNCHANGED <<cache, runVars, histVars, client, agg_pc, agg_use_cache, tasks,
                   all_results>>
    /\ UNCHANGED concVars

\* the credentials whose listings are fetched while the cache routes are used
CacheRouteKeys == {1, NumAccounts}

\* a request calls get_reserved_ips for one of the accounts
AccountCall ==
    /\ client.fn = "none"
    /\ \E k \in CacheRouteKeys, use_cache \in BOOLEAN :
         LET n == CallGetReservedIps(cache, TokenValue(k), use_cache) IN
         /\ cache' = n.cache
         /\ client' = n.call
    /\ UNCHANGED <<runVars, histVars, agg_pc, agg_use_cache, tasks, all_results, route>>
    /\ UNCHANGED concVars

\* one HTTP attempt of that call
AccountAttempt ==
    /\ client.fn = "get_reserved_ips" /\ ~client.done
    /\ \E resp \in AccountResponses, lat \in Latencies :
         LET r == get_reserved_ips(client.attempt, resp)
             cache_key == _get_cache_key(client.token, "reserved_ips")
             c1 == Elapse(cache, lat)
             c2 == IF r.store /\ client.use_cache
                   THEN _set_cache(c1, cache_key, r.value)
                   ELSE c1
         IN /\ cache' = Elapse(c2, r.sleep)
            /\ client' = AfterAttempt(client, resp, r)
    /\ UNCHANGED <<runVars, histVars, agg_pc, agg_use_cache, tasks, all_results, route>>
    /\ UNCHANGED concVars

NextCacheRoutes ==
    \/ AccountCall
    \/ AccountAttempt
    \/ ClientReturn
    \/ RouteClearCache
    \/ RouteCacheStatus
    \/ RouteReturn

SpecCacheRoutes == Init /\ [][NextCacheRoutes]_vars

\* ------------------------------------------------------------ the delete-by-IP route

\* find_account with the last matching account taken
find_account_last(results, reserved_ip) ==
    LET holders == {k \in DOMAIN results :
                       /\ results[k].status = "success"
                       /\ ip_exists(results[k].reserved_ips, reserved_ip)}
    IN IF holders = {} THEN 0
       ELSE CHOOSE k \in holders : \A j \in holders : j <= k

\* delete_reserved_ip route: the scan of all_results.items(), in the order of
\* the configuration; the token key it finds, 0 for none
find_account(results, reserved_ip) ==
    LET holders == {k \in DOMAIN results :
                       /\ results[k].status = "success"
                       /\ ip_exists(results[k].reserved_ips, reserved_ip)}
    IN IF holders = {} THEN 0
       ELSE CHOOSE k \in holders : \A j \in holders : k <= j

\* while the delete route is served the provider answers at once
RouteLatencies == {0}

\* DELETE /api/reserved-ips/<reserved_ip>: get_all_tokens_reserved_ips(use_cache=True)
RouteDeleteStart ==
    /\ route.name = "none" /\ agg_pc = "idle"
    /\ \E reserved_ip \in Ips :
         route' = [NoRoute EXCEPT !.name = "delete_reserved_ip",
                                  !.reserved_ip = reserved_ip]
    /\ agg_use_cache' = TRUE
    /\ tasks' = [k \in TokenKeys |-> NewTask]
    /\ agg_pc' = "gather"
    /\ all_results' = <<>>
    /\ UNCHANGED <<cache, runVars, histVars, client>>
    /\ UNCHANGED concVars

\* one HTTP attempt of task k of the route's aggregation
RouteTaskAttempt(k) == TaskAttempt(k, RouteLatencies)

\* the scan, and the call of doapi.delete_reserved_ip with the token found
RouteDeleteScan ==
    /\ route.name = "delete_reserved_ip" /\ ~route.scanned
    /\ agg_pc = "returned"
    /\ LET found_token_key == find_account(all_results, route.reserved_ip) IN
         IF found_token_key = 0
         THEN /\ route' = [route EXCEPT !.scanned = TRUE, !.code = 404]
              /\ UNCHANGED client
         ELSE /\ route' = [route EXCEPT !.scanned = TRUE,
                                        !.found_token_key = found_token_key]
              /\ client' = NewCall("delete_reserved_ip", TokenValue(found_token_key), FALSE)
    /\ UNCHANGED <<cache, runVars, histVars, agg_pc, agg_use_cache, tasks, all_results>>
    /\ UNCHANGED concVars

\* one HTTP attempt of that call
RouteDeleteAttempt ==
    /\ route.name = "delete_reserved_ip"
    /\ client.fn = "delete_reserved_ip" /\ ~client.done
    /\ \E resp \in DeleteResponses, lat \in RouteLatencies :
         LET r == delete_reserved_ip(client.attempt, resp) IN
         /\ cache' = Elapse(cache, lat + r.sleep)
         /\ client' = Forget(AfterAttempt(client, resp, r))
    /\ UNCHANGED <<runVars, histVars, agg_pc, agg_use_cache, tasks, all_results, route>>
    /\ UNCHANGED concVars

\* the route's response for what doapi.delete_reserved_ip returned
RouteDeleteDone ==
    /\ route.name = "delete_reserved_ip" /\ route.scanned /\ route.code = 0
    /\ client.done
    /\ route' = [route EXCEPT !.code =
                    IF client.value = True THEN 200
                    ELSE IF isinstance_dict(client.value) /\ client.value.error = "not_found"
                    THEN 404
                    ELSE 400]
    /\ client' = NoCall
    /\ UNCHANGED <<cache, runVars, histVars, agg_pc, agg_use_cache, tasks, all_results>>
    /\ UNCHANGED concVars

NextDeleteRoute ==
    \/ RouteDeleteStart
    \/ \E k \in TokenKeys : AggTaskStart(k)
    \/ \E k \in TokenKeys : RouteTaskAttempt(k)
    \/ AggReturn
    \/ RouteDeleteScan
    \/ RouteDeleteAttempt
    \/ RouteDeleteDone
    \/ RouteReturn

SpecDeleteRoute == Init /\ [][NextDeleteRoute]_vars

\* ------------------------------------------------------------ the list-all route

\* for rip in reserved_ips: rip['_source_account'] = token_key
SourceTagged(reserved_ips, token_key) ==
    [i \in 1..Len(reserved_ips) |->
        [ip |-> reserved_ips[i].ip, droplet |-> reserved_ips[i].droplet,
         _source_account |-> token_key]]

\* the list a task got is the list object the cache holds for its key: the
\* call returned the cached list, or stored the list it returns
SameListObject(c, t) ==
    /\ t.call.use_cache /\ ~t.exhausted
    /\ _get_cache_key(t.call.token, "reserved_ips") \in DOMAIN c

\* GET /api/reserved-ips: get_all_tokens_reserved_ips(use_cache=not no_cache)
ListAllStart ==
    /\ route.name = "none" /\ agg_pc = "idle" /\ client.fn = "none"
    /\ \E use_cache \in BOOLEAN : agg_use_cache' = use_cache
    /\ route' = [NoRoute EXCEPT !.name = "get_all_reserved_ips"]
    /\ tasks' = [k \in TokenKeys |-> NewTask]
    /\ agg_pc' = "gather"
    /\ all_results' = <<>>
    /\ UNCHANGED <<cache, runVars, histVars, client>>
    /\ UNCHANGED concVars

\* the route tags every record of every account's list with the account and
\* answers with the merged list; a list that is the cached object is tagged
\* in the cache
ListAllMerge ==
    /\ route.name = "get_all_reserved_ips" /\ route.code = 0
    /\ agg_pc = "returned"
    /\ all_results' =
         [k \in DOMAIN all_results |->
             [all_results[k] EXCEPT !.reserved_ips = SourceTagged(@, k)]]
    /\ cache' =
         [cache_key \in DOMAIN cache |->
             LET holders == {k \in TokenKeys :
                                /\ SameListObject(cache, tasks[k])
                                /\ _get_cache_key(tasks[k].call.token, "reserved_ips")
                                       = cache_key}
             IN IF holders = {}
                THEN cache[cache_key]
                ELSE [cache[cache_key] EXCEPT
                         !.data = SourceTagged(@, CHOOSE k \in holders :
                                                     \A j \in holders : j <= k)]]
    /\ route' = [route EXCEPT !.code = 200]
    /\ UNCHANGED <<runVars, histVars, client, agg_pc, agg_use_cache, tasks>>
    /\ UNCHANGED concVars

\* a later request reads an account's listing: get_reserved_ips(token)
ListingRead ==
    /\ client.fn = "none" /\ route.name = "none" /\ agg_pc = "returned"
    /\ \E k \in CacheRouteKeys :
         LET n == CallGetReservedIps(cache, TokenValue(k), use_cache_default) IN
         /\ cache' = n.cache
         /\ client' = n.call
    /\ UNCHANGED <<runVars, histVars, agg_pc, agg_use_cache, tasks, all_results, route>>
    /\ UNCHANGED concVars

\* one HTTP attempt of that read
ListingReadAttempt ==
    /\ client.fn = "get_reserved_ips" /\ ~client.done
    /\ \E resp \in AccountResponses, lat \in RouteLatencies :
         LET r == get_reserved_ips(client.attempt, resp)
             cache_key == _get_cache_key(client.token, "reserved_ips")
             c1 == Elapse(cache, lat)
             c2 == IF r.store /\ client.use_cache
                   THEN _set_cache(c1, cache_key, r.value)
                   ELSE c1
         IN /\ cache' = Elapse(c2, r.sleep)
            /\ client' = Forget(AfterAttempt(client, resp, r))
    /\ UNCHANGED <<runVars, histVars, agg_pc, agg_use_cache, tasks, all_results, route>>
    /\ UNCHANGED concVars

NextListAll ==
    \/ ListAllStart
    \/ \E k \in TokenKeys : AggTaskStart(k)
    \/ \E k \in TokenKeys : RouteTaskAttempt(k)
    \/ AggReturn
    \/ ListAllMerge
    \/ RouteReturn
    \/ ListingRead
    \/ ListingReadAttempt
    \/ ClientReturn

SpecListAll == Init /\ [][NextListAll]_vars

\* ------------------------------------------------------------ fetches that bypass the cache

\* the route has sent the response of an aggregation that filled the cache,
\* and the next request comes while every entry is fresh
AggDone ==
    /\ agg_pc = "returned" /\ agg_use_cache
    /\ \A k \in DOMAIN cache : cache[k].age = 0
    /\ agg_pc' = "idle"
    /\ tasks' = <<>>
    /\ all_results' = <<>>
    /\ UNCHANGED <<cache, runVars, histVars, client, agg_use_cache, route>>
    /\ UNCHANGED concVars

\* requests for the listings of every account, one after the other, with
\* and without the cache
NextNoCache ==
    \/ AggStart
    \/ \E k \in TokenKeys : AggTaskStart(k)
    \/ \E k \in TokenKeys : RouteTaskAttempt(k)
    \/ AggReturn
    \/ AggDone

SpecNoCache == Init /\ [][NextNoCache]_vars

\* ------------------------------------------------------------ credentials and cache keys

\* the bearer tokens config.json may hold: tokens of TokenLen characters that
\* start alike and differ at the eighth character or at the last
Tokens ==
    {[j \in 1..TokenLen |-> IF j = 8 THEN a ELSE IF j = TokenLen THEN b ELSE 0] :
        a \in TokenKeys, b \in {0, 1}}

\* config.json gives each do_token<i> a credential of its own
Configs ==
    {c \in [TokenKeys -> Tokens] : \A j, k \in TokenKeys : j # k => c[j] # c[k]}

\* the reserved IP held by the account of do_token<i>
AccountIp(k) == IF k = 1 THEN "X" ELSE "Y"

\* GET /v2/reserved_ips answered for the account of do_token<i>
OwnResponses(k) ==
    {r \in AccountResponses :
        \A i \in 1..Len(r.listing) : r.listing[i].ip = AccountIp(k)}

\* the token key of a configured token
TokenKeyOf(token) == CHOOSE k \in TokenKeys : config[k] = token

InitKeys ==
    /\ cache = EmptyCache
    /\ pc = "idle"
    /\ call = NoCall
    /\ machine = [id |-> 0, token |-> <<>>]
    /\ current_reserved_ip = ""
    /\ delete_success = None
    /\ wait_time = 0
    /\ attempt = 0
    /\ new_reserved_ip_info = None
    /\ last_error = None
    /\ result = NoResult
    /\ polls = [deletion |-> 0, creation |-> 0, cached |-> FALSE]
    /\ creates = <<>>
    /\ create_sleeps = <<>>
    /\ mock = TRUE
    /\ client = NoCall
    /\ agg_pc = "idle"
    /\ agg_use_cache = TRUE
    /\ tasks = <<>>
    /\ all_results = <<>>
    /\ route = NoRoute
    /\ config \in Configs
    /\ threads = [t \in Threads |-> NoThread]
    /\ runs = [r \in Runs |-> NoRun]
    /\ requests = [r \in Runs |-> NoRequests]

\* a request reads the listing of one configured account:
\* get_reserved_ips(get_do_token(k))
KeyCall ==
    /\ client.fn = "none"
    /\ \E k \in TokenKeys :
         LET n == CallGetReservedIps(cache, config[k], use_cache_default) IN
         /\ cache' = n.cache
         /\ client' = n.call
    /\ UNCHANGED <<runVars, histVars, agg_pc, agg_use_cache, tasks, all_results, route>>
    /\ UNCHANGED concVars

\* one HTTP attempt of that call, answered for the account of its token
KeyAttempt ==
    /\ client.fn = "get_reserved_ips" /\ ~client.done
    /\ \E resp \in OwnResponses(TokenKeyOf(client.token)), lat \in Latencies :
         LET r == get_reserved_ips(client.attempt, resp)
             cache_key == _get_cache_key(client.token, "reserved_ips")
             c1 == Elapse(cache, lat)
             c2 == IF r.store /\ client.use_cache
                   THEN _set_cache(c1, cache_key, r.value)
                   ELSE c1
         IN /\ cache' = Elapse(c2, r.sleep)
            /\ client' = Forget(AfterAttempt(client, resp, r))
    /\ UNCHANGED <<runVars, histVars, agg_pc, agg_use_cache, tasks, all_results, route>>
    /\ UNCHANGED concVars

NextKeys ==
    \/ KeyCall
    \/ KeyAttempt
    \/ ClientReturn

SpecKeys == InitKeys /\ [][NextKeys]_vars

\* ------------------------------------------------------------ request threads on one cache key

\* the key the threads use: get_reserved_ips(get_do_token(1))
RaceKey == _get_cache_key(ClientToken, "reserved_ips")

\* thread t moves to position p
ThreadAt(t, p) == [threads EXCEPT ![t].pc = p]

\* a request thread calls get_reserved_ips(token) and enters _get_from_cache
ThreadCall(t) ==
    /\ threads[t].pc = "idle"
    /\ threads' = ThreadAt(t, "in")
    /\ UNCHANGED <<cache, runVars, histVars, aggVars, config, runs, requests>>

\* _get_from_cache: `if cache_key in _cache`; a miss returns None and
\* get_reserved_ips goes on to its requests
ThreadIn(t) ==
    /\ threads[t].pc = "in"
    /\ threads' = ThreadAt(t, IF RaceKey \in DOMAIN cache THEN "read" ELSE "fetch")
    /\ UNCHANGED <<cache, runVars, histVars, aggVars, config, runs, requests>>

\* _get_from_cache: `data, timestamp = _cache[cache_key]`, a KeyError when the
\* key is no longer in the dict
ThreadRead(t) ==
    /\ threads[t].pc = "read"
    /\ threads' =
         IF RaceKey \in DOMAIN cache
         THEN [threads EXCEPT ![t].pc = "check",
                              ![t].data = cache[RaceKey].data,
                              ![t].age = cache[RaceKey].age]
         ELSE ThreadAt(t, "raised")
    /\ UNCHANGED <<cache, runVars, histVars, aggVars, config, runs, requests>>

\* _get_from_cache: `if time.time() - timestamp < _cache_timeout: return data`;
\* timestamp is not used again
ThreadCheck(t) ==
    /\ threads[t].pc = "check"
    /\ threads' =
         [threads EXCEPT ![t].pc = IF threads[t].age < _cache_timeout
                                  THEN "returned" ELSE "del",
                         ![t].age = 0]
    /\ UNCHANGED <<cache, runVars, histVars, aggVars, config, runs, requests>>

\* _get_from_cache: `del _cache[cache_key]`, a KeyError when the key is no
\* longer in the dict; then `return None`
ThreadDel(t) ==
    /\ threads[t].pc = "del"
    /\ IF RaceKey \in DOMAIN cache
       THEN /\ cache' = [k \in DOMAIN cache \ {RaceKey} |-> cache[k]]
            /\ threads' = ThreadAt(t, "fetch")
       ELSE /\ threads' = ThreadAt(t, "raised")
            /\ UNCHANGED cache
    /\ UNCHANGED <<runVars, histVars, aggVars, config, runs, requests>>

\* one HTTP attempt of the thread's get_reserved_ips, with _set_cache on 200
ThreadFetch(t) ==
    /\ threads[t].pc = "fetch"
    /\ \E resp \in AccountResponses :
         LET r == get_reserved_ips(threads[t].attempt, resp) IN
         /\ cache' = IF r.store THEN _set_cache(cache, RaceKey, r.value) ELSE cache
         /\ threads' =
              IF r.returns
              THEN [threads EXCEPT ![t].pc = "returned", ![t].data = r.value]
              ELSE [threads EXCEPT ![t].attempt = @ + 1]
    /\ UNCHANGED <<runVars, histVars, aggVars, config, runs, requests>>

\* a request thread serves POST /api/cache/clear: doapi.clear_cache()
ThreadClear(t) ==
    /\ threads[t].pc = "idle"
    /\ cache' = clear_cache(cache)
    /\ UNCHANGED <<runVars, histVars, aggVars, concVars>>

\* the thread's request ends, with the listing or with the exception
ThreadDone(t) ==
    /\ threads[t].pc \in {"returned", "raised"}
    /\ threads' = [threads EXCEPT ![t] = NoThread]
    /\ UNCHANGED <<cache, runVars, histVars, aggVars, config, runs, requests>>

\* time passes for every thread: the entries and the timestamps read grow older
RaceTick ==
    /\ \E k \in DOMAIN cache : cache[k].age < _cache_timeout
    /\ cache' = Elapse(cache, http_timeout)
    /\ threads' =
         [t \in Threads |->
             IF threads[t].pc # "check" THEN threads[t]
             ELSE [threads[t] EXCEPT !.age = IF @ + http_timeout > _cache_timeout
                                             THEN _cache_timeout
                                             ELSE @ + http_timeout]]
    /\ UNCHANGED <<runVars, histVars, aggVars, config, runs, requests>>

NextRace ==
    \/ \E t \in Threads : ThreadCall(t)
    \/ \E t \in Threads : ThreadIn(t)
    \/ \E t \in Threads : ThreadRead(t)
    \/ \E t \in Threads : ThreadCheck(t)
    \/ \E t \in Threads : ThreadDel(t)
    \/ \E t \in Threads : ThreadFetch(t)
    \/ \E t \in Threads : ThreadClear(t)
    \/ \E t \in Threads : ThreadDone(t)
    \/ RaceTick

SpecRace == Init /\ [][NextRace]_vars

\* ------------------------------------------------------------ replace runs served together

\* both requests name the same machine
RunMachine == get_machine_info("hyp-openrealm-us1")

\* the listings the machine's account may show: no reserved IP, or one bound
\* to the machine
RunListings ==
    {l \in Listings : Len(l) <= 1 /\ \A i \in 1..Len(l) : l[i].droplet # NoDroplet}

\* a whole get_reserved_ips(token) call on store c: the stores and values it
\* may leave (the cached listing; else a listing received and stored, or []
\* after the attempts failed)
ListingReads(c, token) ==
    LET cache_key == _get_cache_key(token, "reserved_ips")
        c1 == _get_from_cache(c, cache_key)
    IN IF CacheHit(c, cache_key)
       THEN {[cache |-> c, value |-> c[cache_key].data]}
       ELSE {[cache |-> _set_cache(c1, cache_key, l), value |-> l] : l \in RunListings}
                \cup {[cache |-> c1, value |-> <<>>]}

\* the values a whole delete_reserved_ip call may return
DeleteValues ==
    {x.value : x \in {y \in {delete_reserved_ip(a, resp) :
                                a \in 0..(retries - 1), resp \in DeleteResponses} :
                         y.returns}}

\* the values a whole create_reserved_ip call may return
CreateValues ==
    {x.value : x \in {y \in {create_reserved_ip(a, resp) :
                                a \in 0..(retries - 1), resp \in CreateResponses} :
                         y.returns}}

\* run r returns its response
RunEnds(r) == [runs EXCEPT ![r] = [NoRun EXCEPT !.pc = "done"]]

\* RunStart that waits while another run for the machine is in progress
RunStart_one_at_a_time(r) ==
    /\ runs[r].pc = "idle"
    /\ \A o \in Runs \ {r} : runs[o].pc \in {"idle", "done"}
    /\ runs' = [runs EXCEPT ![r].pc = "locate"]
    /\ UNCHANGED <<cache, runVars, histVars, aggVars, config, threads, requests>>

\* a request thread starts replace_reserved_ip for the machine
RunStart(r) ==
    /\ runs[r].pc = "idle"
    /\ runs' = [runs EXCEPT ![r].pc = "locate"]
    /\ UNCHANGED <<cache, runVars, histVars, aggVars, config, threads, requests>>

\* step 1: find_machine_reserved_ip
RunLocate(r) ==
    /\ runs[r].pc = "locate"
    /\ \E n \in ListingReads(cache, RunMachine.token) :
         LET found == find_machine_reserved_ip(n.value, RunMachine.id) IN
         /\ cache' = n.cache
         /\ runs' = IF found = ""
                    THEN RunEnds(r)
                    ELSE [runs EXCEPT ![r].pc = "delete",
                                      ![r].current_reserved_ip = found]
    /\ UNCHANGED <<runVars, histVars, aggVars, config, threads, requests>>

\* step 2: doapi.delete_reserved_ip, the run's delete request
RunDelete(r) ==
    /\ runs[r].pc = "delete"
    /\ \E v \in DeleteValues :
         runs' = IF ~delete_accepted(v)
                 THEN RunEnds(r)
                 ELSE [runs EXCEPT ![r].pc = "confirm_delete", ![r].wait_time = 0]
    /\ requests' = RequestMade(requests, r, "delete")
    /\ UNCHANGED <<cache, runVars, histVars, aggVars, config, threads>>

\* step 3: one pass of the loop of wait_for_reserved_ip_deletion
RunConfirmDelete(r) ==
    /\ runs[r].pc = "confirm_delete"
    /\ \E n \in ListingReads(cache, RunMachine.token) :
         LET outcome == wait_for_reserved_ip_deletion(n.value,
                            runs[r].current_reserved_ip, runs[r].wait_time)
         IN CASE outcome = "poll" ->
                   /\ cache' = Elapse(n.cache, poll_sleep)
                   /\ runs' = [runs EXCEPT ![r].wait_time = @ + poll_sleep]
              [] outcome = "False" ->
                   /\ cache' = Elapse(n.cache, poll_sleep)
                   /\ runs' = RunEnds(r)
              [] OTHER ->
                   /\ cache' = n.cache
                   /\ runs' = IF after_deletion_wait(TRUE) = "settle"
                              THEN [runs EXCEPT ![r].pc = "settle", ![r].wait_time = 0]
                              ELSE RunEnds(r)
    /\ UNCHANGED <<runVars, histVars, aggVars, config, threads, requests>>

\* step 4: the settle pause
RunSettle(r) ==
    /\ runs[r].pc = "settle"
    /\ cache' = Elapse(cache, settle_sleep)
    /\ runs' = [runs EXCEPT ![r].pc = "create", ![r].attempt = 0]
    /\ UNCHANGED <<runVars, histVars, aggVars, config, threads, requests>>

\* step 5: one doapi.create_reserved_ip call of the create loop; the first
\* is the run's create request
RunCreate(r) ==
    /\ runs[r].pc = "create"
    /\ requests' = IF runs[r].attempt = 0
                   THEN RequestMade(requests, r, "create")
                   ELSE requests
    /\ \E info \in CreateValues :
         LET branch == create_branch(info, runs[r].attempt) IN
         CASE branch = "quota_exceeded" ->
                /\ runs' = RunEnds(r)
                /\ UNCHANGED cache
           [] branch = "retry" ->
                /\ cache' = Elapse(cache, (runs[r].attempt + 1) * create_wait_step)
                /\ runs' = [runs EXCEPT ![r].attempt = @ + 1]
           [] OTHER ->
                /\ runs' = IF create_failed(info)
                           THEN RunEnds(r)
                           ELSE [runs EXCEPT ![r].pc = "confirm_create",
                                             ![r].wait_time = 0]
                /\ UNCHANGED cache
    /\ UNCHANGED <<runVars, histVars, aggVars, config, threads>>

\* step 6: one pass of the loop of wait_for_reserved_ip_creation, and step 7
RunConfirmCreate(r) ==
    /\ runs[r].pc = "confirm_create"
    /\ \E n \in ListingReads(cache, RunMachine.token) :
         LET outcome == wait_for_reserved_ip_creation(n.value, RunMachine.id,
                                                      runs[r].wait_time)
         IN CASE outcome = "poll" ->
                   /\ cache' = Elapse(n.cache, poll_sleep)
                   /\ runs' = [runs EXCEPT ![r].wait_time = @ + poll_sleep]
              [] outcome = "None" ->
                   /\ cache' = Elapse(n.cache, poll_sleep)
                   /\ runs' = RunEnds(r)
              [] OTHER ->
                   /\ cache' = n.cache
                   /\ runs' = RunEnds(r)
    /\ UNCHANGED <<runVars, histVars, aggVars, config, threads, requests>>

NextTwoRuns ==
    \/ \E r \in Runs : RunStart(r)
    \/ \E r \in Runs : RunLocate(r)
    \/ \E r \in Runs : RunDelete(r)
    \/ \E r \in Runs : RunConfirmDelete(r)
    \/ \E r \in Runs : RunSettle(r)
    \/ \E r \in Runs : RunCreate(r)
    \/ \E r \in Runs : RunConfirmCreate(r)

SpecTwoRuns == Init /\ [][NextTwoRuns]_vars

\* ------------------------------------------------------------ properties

QuotaAnswer == <<422, "exceed your Reserved IP limit">>

\* the create loop of the run is over
CreateLoopOver == pc = "confirm_create" \/ (pc = "done" /\ creates # <<>>)

\* a create call failed and its failure was not the quota answer
NonQuotaFailure(kind) == kind \in {"None", "unprocessable_entity"}

\* C1: when every listing that CONFIRM_DELETE observed held the old IP until
\* the 120-second budget was used up, the run has ended with delete_timeout
\* (408) and has issued no create request.
C1_DeleteTimeoutNoCreate ==
    (pc \notin {"idle", "locate", "delete"} /\ polls.creation = 0
        /\ wait_time = max_wait_time)
    => /\ pc = "done"
       /\ result.kind = "delete_timeout" /\ result.code = 408
       /\ creates = <<>>
       /\ call.fn = "none"

C1_Witness ==
    /\ pc = "done" /\ result.kind = "delete_timeout"
    /\ wait_time = max_wait_time /\ polls.deletion = MaxCounted

\* C2: on the happy path (delete accepted, old IP absent from the first
\* listing after it, create accepted, new IP bound from the first listing
\* after it) the run returns {old_ip, new_ip} after exactly 2 polls.
C2_HappyPathTwoPolls ==
    (pc = "done" /\ mock /\ creates # <<>>)
    => /\ result.kind = "completed"
       /\ result.old_reserved_ip = current_reserved_ip
       /\ result.new_reserved_ip = new_reserved_ip_info.ip
       /\ polls.deletion = 1 /\ polls.creation = 1

\* C3: no poll of CONFIRM_DELETE or CONFIRM_CREATE is answered from the TTL
\* cache.
C3_PollsBypassCache == ~polls.cached

\* C4: a delete that returned false, pending_event or unprocessable_entity
\* ends the run with delete_failed: no poll and no create request follows.
C4_DeleteFailureStops ==
    (delete_success.tag = "False"
        \/ delete_success.error \in {"pending_event", "unprocessable_entity"})
    => /\ pc = "done"
       /\ result.kind = "delete_failed"
       /\ polls.deletion = 0
       /\ creates = <<>>

\* C5: a delete that returned not_found is treated like one that returned
\* true: the run goes on to CONFIRM_DELETE and does not end in delete_failed.
C5_NotFoundAcceptedLikeTrue ==
    (delete_success.tag = "True" \/ delete_success.error = "not_found")
    => /\ result.kind # "delete_failed"
       /\ pc = "confirm_delete" \/ polls.deletion >= 1

C5_Witness ==
    /\ delete_success.error = "not_found"
    /\ pc = "confirm_delete"
    /\ polls.deletion = 0

\* C6: when create calls fail with a non-quota error, the run makes a second
\* call after 15 s and a third after 30 s more, and a third call that succeeds
\* lets the run continue to CONFIRM_CREATE.
C6_CreateRetriedTwice ==
    CreateLoopOver
    => /\ NonQuotaFailure(creates[1])
            => Len(creates) >= 2 /\ create_sleeps[1] = 15
       /\ (Len(creates) >= 2 /\ NonQuotaFailure(creates[1]) /\ NonQuotaFailure(creates[2]))
            => /\ Len(creates) = 3
               /\ create_sleeps = <<15, 30>>
               /\ creates[3] = "created"
                    => result.kind \notin {"create_failed_after_retries", "quota_exceeded"}

\* C7: the run ends with create_failed_after_retries only after 3 create
\* calls, and then carries the error of the last one.
C7_CreateFailureAfterThreeCalls ==
    (result.kind = "create_failed_after_retries"
        /\ \A i \in 1..Len(creates) : NonQuotaFailure(creates[i]))
    => /\ Len(creates) = max_retries
       /\ result.last_error = new_reserved_ip_info

\* C8 as stated: a create_reserved_ip call that returns quota_exceeded made
\* exactly 1 HTTP attempt.
C8_QuotaAttemptCountIsOne ==
    (client.fn = "create_reserved_ip" /\ client.done
        /\ client.value.error = "quota_exceeded")
    => Len(client.log) = 1

\* C8 as amended: the quota answer is never retried: the attempt that
\* receives it is the last of the call, the call returns quota_exceeded at
\* once, and no sleep follows it (one sleep per earlier, generic failure); so
\* a call whose first answer is the quota answer makes exactly 1 attempt.
C8_QuotaNeverRetried ==
    client.fn = "create_reserved_ip"
    => \A i \in 1..Len(client.log) :
          client.log[i] = QuotaAnswer
          => /\ i = Len(client.log)
             /\ client.done
             /\ client.value.error = "quota_exceeded"
             /\ Len(client.sleeps) = i - 1
             /\ \A j \in 1..(i - 1) : client.log[j][1] \in {500, TransportError}

C8_Witness ==
    /\ client.fn = "create_reserved_ip" /\ client.done
    /\ client.log = <<QuotaAnswer>>
    /\ client.sleeps = <<>>

\* C9: a create call of the run that returns quota_exceeded is the last one:
\* the run has ended with quota_exceeded, without a sleep after that call and
\* without a CONFIRM_CREATE poll.
C9_QuotaEndsRun ==
    \A i \in 1..Len(creates) :
       creates[i] = "quota_exceeded"
       => /\ i = Len(creates)
          /\ pc = "done"
          /\ call.fn = "none"
          /\ result.kind = "quota_exceeded"
          /\ result.error_type = "quota_exceeded"
          /\ Len(create_sleeps) = i - 1
          /\ polls.creation = 0

C9_Witness ==
    /\ pc = "done" /\ result.kind = "quota_exceeded"
    /\ creates = <<"unprocessable_entity", "unprocessable_entity", "quota_exceeded">>

\* C10: when the fetch of account a fails on every attempt and that of
\* account b succeeds, the aggregator returns b tagged success with its data
\* and a tagged failed with an error message.
C10_FailedAccountTaggedFailed ==
    agg_pc = "returned"
    => \A a, b \in TokenKeys :
          (tasks[a].exhausted /\ ~tasks[b].exhausted)
          => /\ b \in DOMAIN all_results
             /\ all_results[b].status = "success"
             /\ all_results[b].reserved_ips = tasks[b].call.value
             /\ a \in DOMAIN all_results
             /\ all_results[a].status = "failed"
             /\ all_results[a].error # ""

\* C11: the aggregator returns only when every per-account fetch has
\* finished, and its result has exactly one entry per configured credential,
\* the dict that account's fetch returned, whether fetches failed or not.
C11_AllAccountsReturned ==
    agg_pc = "returned"
    => /\ \A k \in TokenKeys : tasks[k].call.done
       /\ DOMAIN all_results = TokenKeys
       /\ \A k \in TokenKeys :
             /\ all_results[k].token_key = k
             /\ all_results[k] = tasks[k].result
             /\ all_results[k].reserved_ips = tasks[k].call.value

C11_Witness ==
    /\ agg_pc = "returned"
    /\ tasks[1].exhausted /\ ~tasks[2].exhausted
    /\ DOMAIN all_results = TokenKeys

\* C13: a run whose LOCATE_CURRENT found no reserved IP bound to the machine
\* has ended with no_current_ip and has made no delete call, no poll and no
\* create call.
C13_NoCurrentIpNothingMutated ==
    (pc \notin {"idle", "locate"} /\ current_reserved_ip = ""
        /\ result.kind # "exception")
    => /\ pc = "done"
       /\ result.kind = "no_current_ip" /\ ~result.success
       /\ call = NoCall
       /\ delete_success = None
       /\ polls.deletion = 0 /\ polls.creation = 0
       /\ creates = <<>>

C13_Witness ==
    /\ pc = "done" /\ result.kind = "no_current_ip"
    /\ machine.id \in DropletIds

\* C14: when no listing that CONFIRM_CREATE observed showed a reserved IP
\* bound to the machine until the 120-second budget was used up, the run has
\* ended with create_timeout (408), although its create call was accepted.
C14_CreateTimeout ==
    (polls.creation >= 1 /\ wait_time = max_wait_time)
    => /\ pc = "done"
       /\ result.kind = "create_timeout" /\ result.code = 408 /\ ~result.success
       /\ creates # <<>> /\ creates[Len(creates)] = "created"
       /\ call = NoCall

C14_Witness ==
    /\ pc = "done" /\ result.kind = "create_timeout"
    /\ wait_time = max_wait_time /\ polls.creation = MaxCounted

\* the provider accepted the delete request of the run
DeleteAcceptedByProvider ==
    delete_success.tag = "True" \/ delete_success.error = "not_found"

\* C15: a polling timeout is reported with a status other than that of a
\* rejected request, and it is reported only for a request the provider
\* accepted: delete_timeout only after an accepted delete, create_timeout only
\* after an accepted create.
C15_TimeoutMeansAccepted ==
    /\ result.kind \in {"delete_timeout", "create_timeout"} => result.code = 408
    /\ result.kind \in {"delete_failed", "create_failed_after_retries"}
          => result.code # 408
    /\ result.kind = "delete_timeout" => DeleteAcceptedByProvider
    /\ result.kind = "create_timeout"
          => creates # <<>> /\ creates[Len(creates)] = "created"

\* C16: a run for a machine name the configuration lacks has ended in an error
\* and has made no client call of any kind.
C16_UnknownMachineNoRequest ==
    (pc # "idle" /\ machine.id \notin DropletIds)
    => /\ pc = "done"
       /\ result.kind = "exception" /\ ~result.success /\ result.code = 400
       /\ call = NoCall
       /\ current_reserved_ip = ""
       /\ delete_success = None
       /\ polls.deletion = 0 /\ polls.creation = 0 /\ ~polls.cached
       /\ creates = <<>>

C16_Witness ==
    /\ pc = "done" /\ result.kind = "exception"
    /\ machine.id \notin DropletIds

\* C18: every failed outcome of a run carries a classified error kind in its
\* details.
C18_FailuresCarryErrorKind ==
    result.kind \in {"no_current_ip", "delete_failed", "delete_timeout",
                     "quota_exceeded", "create_failed_after_retries",
                     "create_timeout"}
    => "error_type" \in result.details /\ result.error_type # ""

\* the values a client function may return
ClientValues(fn) ==
    CASE fn = "get_reserved_ips" -> Listings
      [] fn = "create_reserved_ip" ->
            {None, EmptyDict, InfoDict("X"),
             ErrorDict("quota_exceeded", {"message"}),
             ErrorDict("unprocessable_entity", {"message"}),
             ErrorDict("unprocessable_entity", {"status_code"})}
      [] fn = "delete_reserved_ip" ->
            {True, False} \cup
            {ErrorDict(e, {"message", "ip"}) :
                e \in {"not_found", "pending_event", "unprocessable_entity"}}
      [] fn = "manage_reserved_ip_assignment" -> {None, EmptyDict, ActionDict}

\* C17: a client call makes at most `retries` HTTP attempts whatever the
\* provider answers, the last of them ends the call, and a call that has
\* ended has returned one of the values of its function (it has not raised).
C17_ClientReturnsWithinRetries ==
    client.fn # "none"
    => /\ Len(client.log) <= retries
       /\ Len(client.sleeps) <= retries - 1
       /\ Len(client.log) = retries => client.done
       /\ client.done => client.value \in ClientValues(client.fn)

C17_Witness ==
    /\ client.fn = "manage_reserved_ip_assignment" /\ client.done
    /\ Len(client.log) = retries
    /\ \A i \in 1..Len(client.log) : client.log[i][1] = TransportError
    /\ client.value = None

Holders ==
    {k \in DOMAIN all_results :
        /\ all_results[k].status = "success"
        /\ ip_exists(all_results[k].reserved_ips, route.reserved_ip)}

\* C19: once the delete-by-IP route has scanned the aggregated results, it
\* has either found no account holding the IP, answered 404 and made no
\* delete call, or called delete with the credential of the first account
\* holding it.
C19_DeleteByIpFirstMatch ==
    (route.name = "delete_reserved_ip" /\ route.scanned)
    => IF Holders = {}
       THEN /\ route.found_token_key = 0
            /\ route.code = 404
            /\ client = NoCall
       ELSE /\ route.found_token_key \in Holders
            /\ \A j \in Holders : route.found_token_key <= j
            /\ client.fn \in {"none", "delete_reserved_ip"}
            /\ client.fn = "delete_reserved_ip"
                  => client.token = TokenValue(route.found_token_key)
            /\ client.fn = "none" => route.code # 0

C19_Witness ==
    /\ route.name = "delete_reserved_ip" /\ route.scanned
    /\ Cardinality(Holders) >= 2
    /\ route.found_token_key = 1
    /\ client.fn = "delete_reserved_ip"
    /\ client.token = TokenValue(1)

\* C20: the clear route leaves the store empty; while the store is empty a
\* get returns a miss and the status route reports zero items; and the store
\* stays empty until a fetch that received 200 stores its listing.
C20_ClearCacheEmpties ==
    [][/\ (route.name = "none" /\ route'.name = "clear_cache")
            => cache' = EmptyCache
       /\ (cache = EmptyCache /\ client.fn = "none" /\ client'.fn = "get_reserved_ips")
            => ~client'.cached /\ ~client'.done
       /\ (cache = EmptyCache /\ route.name = "none" /\ route'.name = "cache_status")
            => route'.cached_items = 0
       /\ (cache = EmptyCache /\ cache' # EmptyCache)
            => /\ client.fn = "get_reserved_ips" /\ client.use_cache
               /\ client'.done
               /\ client'.log[Len(client'.log)] = <<200, "">>
               /\ DOMAIN cache' = {_get_cache_key(client.token, "reserved_ips")}]_vars

C20_Witness ==
    /\ route.name = "clear_cache"
    /\ cache = EmptyCache
    /\ client.fn = "get_reserved_ips" /\ client.use_cache
    /\ ~client.done /\ ~client.cached /\ client.log = <<>>

\* a logged response that is non-2xx and none of the classified outcomes
Unclassified(entry) ==
    \/ entry[1] = 500
    \/ entry[1] = 422 /\ entry[2] \in {"other", "unparsable"}

\* C21: an attempt of create or delete that receives an unclassified non-2xx
\* response, an unrecognised 422 included, is followed by a backoff sleep and
\* another attempt unless it was the final attempt.
C21_UnclassifiedRetried ==
    client.fn \in {"create_reserved_ip", "delete_reserved_ip"}
    => \A i \in 1..Len(client.log) :
          (Unclassified(client.log[i]) /\ i < retries)
          => /\ Len(client.sleeps) >= i
             /\ ~(client.done /\ Len(client.log) = i)

\* the entries of the store c that d does not hold as they are (aged only)
Written(c, d) ==
    {k \in DOMAIN d :
        \/ k \notin DOMAIN c
        \/ d[k].data # c[k].data
        \/ d[k].age < c[k].age}

\* the store d holds every entry of c, aged only
KeptAll(c, d) == DOMAIN d = DOMAIN c /\ Written(c, d) = {}

\* C22: an entry is created or overwritten only by the step of a use_cache
\* fetch that received 200, for that fetch's key and with its listing; the
\* step that ends a fetch whose attempts all failed returns [] and writes
\* nothing.
C22_CacheWrittenOnlyOn200 ==
    [][/\ \A k \in Written(cache, cache') :
             /\ client.fn = "get_reserved_ips" /\ client.use_cache /\ ~client.done
             /\ client'.done
             /\ client'.log[Len(client'.log)] = <<200, "">>
             /\ k = _get_cache_key(client.token, "reserved_ips")
             /\ cache'[k].data = client'.value
       /\ (client.fn = "get_reserved_ips" /\ ~client.done /\ client'.done
              /\ client'.log[Len(client'.log)][1] # 200)
            => /\ client'.value = <<>>
               /\ Len(client'.log) = retries
               /\ KeptAll(cache, cache')]_vars

C22_Witness ==
    /\ client.fn = "get_reserved_ips" /\ client.use_cache /\ client.done
    /\ Len(client.log) = retries
    /\ \A i \in 1..Len(client.log) : client.log[i][1] # 200
    /\ client.value = <<>>
    /\ cache = EmptyCache

\* C26: no step of a create or delete call writes or removes a cache entry,
\* so the listing cached before a delete that succeeded is still served.
C26_CreateDeleteKeepCache ==
    [][(client' # client
          /\ \/ client.fn \in {"create_reserved_ip", "delete_reserved_ip"}
             \/ client'.fn \in {"create_reserved_ip", "delete_reserved_ip"})
       => KeptAll(cache, cache')]_vars

C26_Witness ==
    LET cache_key == _get_cache_key(ClientToken, "reserved_ips") IN
    /\ client.fn = "delete_reserved_ip" /\ client.done /\ client.value = True
    /\ CacheHit(cache, cache_key)
    /\ cache[cache_key].data # <<>>

PendingEvent == <<422, "pending event">>

\* C30: in delete_reserved_ip an attempt that receives the pending event is
\* followed, unless it is the final attempt, by a sleep of 5 s after the first
\* attempt and 7 s after the second (longer than the generic 3 s and 4 s) and
\* by another attempt; pending_event is returned exactly when the final
\* attempt receives it.
C30_PendingEventBackoff ==
    client.fn = "delete_reserved_ip"
    => /\ \A i \in 1..Len(client.log) :
             client.log[i] = PendingEvent
             => IF i < 3
                THEN /\ Len(client.sleeps) >= i
                     /\ client.sleeps[i] = <<5, 7, 9>>[i]
                     /\ client.sleeps[i] > <<3, 4, 5>>[i]
                     /\ ~(client.done /\ Len(client.log) = i)
                ELSE /\ client.done
                     /\ client.value = ErrorDict("pending_event", {"message", "ip"})
       /\ (client.done /\ client.value.error = "pending_event")
             => Len(client.log) = 3 /\ client.log[3] = PendingEvent

C30_Witness ==
    /\ client.fn = "delete_reserved_ip" /\ client.done
    /\ client.log = <<PendingEvent, PendingEvent, PendingEvent>>
    /\ client.sleeps = <<5, 7>>
    /\ client.value.error = "pending_event"

\* the phase that follows each phase of a run that goes on
NextPhase ==
    [idle |-> "locate", locate |-> "delete", delete |-> "confirm_delete",
     confirm_delete |-> "settle", settle |-> "create", create |-> "confirm_create",
     confirm_create |-> "done", done |-> "done"]

\* C27: a step of a replace run stays in its phase, moves to the next phase
\* of LOCATE_CURRENT, DELETE_OLD, CONFIRM_DELETE, SETTLE_DELAY, CREATE_NEW,
\* CONFIRM_CREATE, DONE, or ends the run; a run that has ended changes no
\* more; delete_reserved_ip is called on leaving LOCATE_CURRENT only, so once,
\* and never after a create call.
C27_PhasesInOrder ==
    [][/\ pc' \in {pc, NextPhase[pc], "done"}
       /\ pc = "done" => UNCHANGED runVars
       /\ (call'.fn = "delete_reserved_ip" /\ call.fn # "delete_reserved_ip")
            => pc = "locate" /\ pc' = "delete" /\ creates = <<>>
       /\ call'.fn = "delete_reserved_ip" => pc' = "delete"
       /\ call'.fn = "create_reserved_ip" => pc' = "create"]_vars

C27_Witness ==
    /\ pc = "done" /\ result.success
    /\ creates # <<>>
    /\ polls.deletion > 0 /\ polls.creation > 0

\* C28: a run enters SETTLE_DELAY only from the poll of CONFIRM_DELETE that
\* found the old IP absent, and makes its first create call only from
\* SETTLE_DELAY, in the step in which 10 seconds pass, whatever
\* delete_reserved_ip returned.
C28_SettleBeforeCreate ==
    [][/\ (pc' = "settle" /\ pc # "settle")
            => /\ pc = "confirm_delete" /\ call.done
               /\ ~ip_exists(call.value, current_reserved_ip)
       /\ (pc' = "create" /\ pc # "create")
            => /\ pc = "settle"
               /\ settle_sleep = 10
               /\ cache' = Elapse(cache, settle_sleep)
               /\ call' = NewCall("create_reserved_ip", machine.token, FALSE)
       /\ (call'.fn = "create_reserved_ip" /\ call.fn # "create_reserved_ip")
            => pc = "settle"]_vars

C28_Witness ==
    /\ pc = "create" /\ attempt = 0 /\ call.attempt = 0 /\ ~call.done
    /\ delete_success # True
    /\ \E k \in DOMAIN cache : cache[k].age = settle_sleep

\* C25: a listing served from the cache is the payload as the provider gave
\* it: its records carry rip['ip'] and rip['droplet'] and nothing that a
\* request added after the fetch.
C25_CachedPayloadAsFetched ==
    (client.fn = "get_reserved_ips" /\ client.done /\ client.cached)
    => \A i \in 1..Len(client.value) : client.value[i] \in ReservedIp

\* C24: the credentials of two token keys have different cache keys, and a
\* listing returned for a credential holds reserved IPs of its account only.
C24_DistinctKeysPerAccount ==
    /\ \A j, k \in TokenKeys :
          j # k => _get_cache_key(config[j], "reserved_ips")
                       # _get_cache_key(config[k], "reserved_ips")
    /\ (client.fn = "get_reserved_ips" /\ client.done)
          => \A i \in 1..Len(client.value) :
                client.value[i].ip = AccountIp(TokenKeyOf(client.token))

\* C23: whatever the interleaving of the threads' cache operations on one
\* key (get with its lazy eviction, set, clear), no thread's operation raises.
C23_CacheOpsNeverRaise == \A t \in Threads : threads[t].pc # "raised"

\* the phases from DELETE_OLD to CONFIRM_CREATE
Replacing == {"delete", "confirm_delete", "settle", "create", "confirm_create"}

\* C29: whatever phase the other runs for the machine are in, a replace
\* request can start, a run that has located the IP can make its delete
\* request, and a run that has settled can make its create request.
C29_NothingPreventsOverlap ==
    \A r \in Runs :
        /\ runs[r].pc = "idle" => ENABLED RunStart(r)
        /\ runs[r].pc = "delete" => ENABLED RunDelete(r)
        /\ runs[r].pc = "create" => ENABLED RunCreate(r)

C29_Witness ==
    \E r, o \in Runs :
        /\ r # o
        /\ runs[r].pc \in Replacing /\ runs[o].pc \in Replacing
        /\ requests[r].made = {"delete", "create"}
        /\ requests[r].crossed
        /\ requests[o].made # {}

\* a logged response that is a transport exception or a status that
\* delete_reserved_ip does not classify
Generic(entry) == entry[1] \in {500, TransportError}

\* C31: in delete_reserved_ip an attempt that fails generically is followed,
\* unless it is the third attempt, by a sleep of 3 s after the first attempt
\* and 4 s after the second and by another attempt; there are at most three
\* attempts, and False is returned when the third fails generically too.
C31_GenericDeleteBackoff ==
    client.fn = "delete_reserved_ip"
    => /\ Len(client.log) <= 3
       /\ \A i \in 1..Len(client.log) :
             Generic(client.log[i])
             => IF i < 3
                THEN /\ Len(client.sleeps) >= i
                     /\ client.sleeps[i] = <<3, 4, 5>>[i]
                     /\ ~(client.done /\ Len(client.log) = i)
                ELSE client.done /\ client.value = False
       /\ (client.done /\ client.value = False)
             => Len(client.log) = 3 /\ Generic(client.log[3])

C31_Witness ==
    /\ client.fn = "delete_reserved_ip" /\ client.done
    /\ Len(client.log) = 3
    /\ \A i \in 1..3 : Generic(client.log[i])
    /\ client.sleeps = <<3, 4>>
    /\ client.value = False

\* C32: in delete_reserved_ip the attempt that receives 404 is the last: the
\* call has returned the not_found dict, with no sleep after that attempt.
C32_NotFoundNeverRetried ==
    client.fn = "delete_reserved_ip"
    => \A i \in 1..Len(client.log) :
          client.log[i][1] = 404
          => /\ client.done
             /\ Len(client.log) = i
             /\ Len(client.sleeps) = i - 1
             /\ client.value = ErrorDict("not_found", {"message", "ip"})

C32_Witness ==
    /\ client.fn = "delete_reserved_ip" /\ client.done
    /\ Len(client.log) = 2
    /\ Generic(client.log[1])
    /\ client.log[2][1] = 404

\* C33: list, create and assign/unassign make at most three attempts, sleep
\* 2 s after each attempt that is retried, and do not sleep after the attempt
\* that ends the call.
C33_FlatTwoSecondBackoff ==
    client.fn \in {"get_reserved_ips", "create_reserved_ip",
                   "manage_reserved_ip_assignment"}
    => /\ Len(client.log) <= 3
       /\ \A i \in 1..Len(client.sleeps) : client.sleeps[i] = 2
       /\ Len(client.sleeps) =
             IF client.done /\ client.log # <<>>
             THEN Len(client.log) - 1
             ELSE Len(client.log)
       /\ \A i \in 1..Len(client.sleeps) :
             client.log[i][1] \notin {200, 201, 202, 204}

C33_Witness ==
    /\ client.fn = "manage_reserved_ip_assignment" /\ client.done
    /\ Len(client.log) = 3
    /\ client.sleeps = <<2, 2>>
    /\ client.value = None

\* C34: a polling phase counts 10 s per poll up to 120 s: the poll in progress
\* is at most the twelfth, whatever the polls returned, and a timeout is
\* reported when twelve intervals have been counted.
C34_PollingBounded ==
    /\ pc \in {"confirm_delete", "confirm_create"}
          => wait_time \in {10 * i : i \in 0..11}
    /\ result.kind \in {"delete_timeout", "create_timeout"}
          => /\ pc = "done" /\ result.code = 408
             /\ wait_time = 120

C34_Witness ==
    /\ pc = "done"
    /\ result.kind = "create_timeout"
    /\ wait_time = 12 * poll_sleep
    /\ polls.creation = MaxCounted

\* the step in which the run's get_reserved_ips call returns [] after its
\* last attempt failed: the call ends and the store holds no entry for its
\* key (a listing received with 200 is stored in the same step)
FetchFailed ==
    /\ call.fn = "get_reserved_ips" /\ ~call.done
    /\ call'.fn = "get_reserved_ips" /\ call'.done
    /\ _get_cache_key(call.token, "reserved_ips") \notin DOMAIN cache'

\* C36: a poll of CONFIRM_DELETE whose fetch failed on every attempt does
\* not give wait_for_reserved_ip_deletion a listing from which it reports the
\* old IP gone.
C36_FailedFetchNotEvidence ==
    [][(pc = "confirm_delete" /\ FetchFailed)
       => wait_for_reserved_ip_deletion(call'.value, current_reserved_ip,
                                        wait_time) # "True"]_vars

\* C37: the new IP a completed run reports is the IP its create call
\* returned, and is not the old IP the run deleted.
C37_NewIpIsCreatedIp ==
    (pc = "done" /\ result.success)
    => /\ result.new_reserved_ip = new_reserved_ip_info.ip
       /\ result.new_reserved_ip # result.old_reserved_ip

\* C38: a fetch of LOCATE_CURRENT that failed on every attempt does not give
\* find_machine_reserved_ip a listing from which the run reports that the
\* machine has no reserved IP.
C38_FailedFetchNotNoCurrentIp ==
    [][(pc = "locate" /\ FetchFailed)
       => find_machine_reserved_ip(call'.value, machine.id) # ""]_vars

\* C39: a run makes at most three create calls and each makes at most three
\* HTTP attempts: with the calls that have returned and the attempts of the
\* call in progress, at most nine create requests.
C39_CreateRequestsBounded ==
    /\ Len(creates) <= max_retries
    /\ retries * max_retries = 9
    /\ call.fn = "create_reserved_ip"
          => /\ pc = "create"
             /\ call.attempt + 1 <= retries
             /\ retries * Len(creates) + call.attempt + 1 <= 9

C39_Witness ==
    /\ pc = "create"
    /\ creates = <<"unprocessable_entity", "unprocessable_entity">>
    /\ call.fn = "create_reserved_ip" /\ ~call.done
    /\ call.attempt = retries - 1

\* the phases of the run in the order the code goes through them
PhaseRank ==
    [idle |-> 0, locate |-> 1, delete |-> 2, confirm_delete |-> 3, settle |-> 4,
     create |-> 5, confirm_create |-> 6, done |-> 7]

\* the passes a polling loop can make: wait_time goes up by poll_sleep from 0
\* and the loop ends at max_wait_time
LoopSlots == max_wait_time \div poll_sleep + 1

\* the passes made so far by the loop of the phase the run is in
LoopCount ==
    CASE pc \in {"confirm_delete", "confirm_create"} -> wait_time \div poll_sleep
      [] pc = "create" -> attempt
      [] OTHER -> 0

\* how far the client call the run waits on has come: its HTTP attempts, then
\* its return
CallPosition ==
    IF call.done THEN retries ELSE call.attempt

\* how far the run has come: the phase, then the pass of the loop of the
\* phase, then the position of the client call
RunPosition == (PhaseRank[pc] * LoopSlots + LoopCount) * (retries + 1) + CallPosition

\* the position of a run that has ended
RunEnd == PhaseRank["done"] * LoopSlots * (retries + 1)

\* a step that is not a step of the run
CacheStep == UNCHANGED <<runProgress, polls, creates, create_sleeps, mock>>

\* C35: a replace run that has started reaches its end, with a success or an
\* error response, whatever the provider answers and however often the cache
\* is cleared: until it has ended the run can always take a step, every step
\* of the run moves it forward (a later phase, a later pass of the retry or
\* polling loop of the phase, a later HTTP attempt of the client call), and
\* its position never passes that of the end; so a run that is resumed after
\* each HTTP attempt and each sleep ends after a bounded number of steps.
C35_RunTerminates ==
    [][/\ pc \notin {"idle", "done"} => ENABLED <<Next>>_runProgress
       /\ RunPosition <= RunEnd
       /\ RunPosition' <= RunEnd
       /\ (pc = "done") = (RunPosition = RunEnd)
       /\ CacheStep \/ RunPosition' > RunPosition]_vars

C35_Witness ==
    /\ pc = "done"
    /\ result.kind = "delete_timeout"
    /\ wait_time = max_wait_time

\* the get_reserved_ips call c takes a step: it starts, makes an HTTP attempt
\* or returns
CallStep(c, d) == <<c.fn, c.attempt, c.done>> # <<d.fn, d.attempt, d.done>>

\* the step of a get_reserved_ips call, from c to d, that bypasses the cache:
\* the call starts without a value (an HTTP attempt has to give it one) and
\* every entry of the store is kept
Bypasses(c, d) ==
    /\ ~d.cached
    /\ c.fn = "none" => ~d.done /\ d.attempt = 0
    /\ KeptAll(cache, cache')

\* C40: get_reserved_ips called with use_cache=false neither reads nor writes
\* the cache: its value comes from an HTTP attempt, never from an entry, and
\* its steps keep every entry of the cache as it is; and every per-account
\* fetch of get_all_tokens_reserved_ips is made with the aggregator's own
\* use_cache flag.
C40_NoCacheFetchBypassesCache ==
    [][\A k \in DOMAIN tasks' :
          tasks'[k].call.fn = "get_reserved_ips"
          => /\ tasks'[k].call.use_cache = agg_use_cache'
             /\ (~tasks'[k].call.use_cache /\ k \in DOMAIN tasks
                 /\ CallStep(tasks[k].call, tasks'[k].call))
                => Bypasses(tasks[k].call, tasks'[k].call)]_vars

\* with an entry held for an account, a fetch of the aggregator that bypasses
\* the cache has returned another listing for that account
C40_Witness ==
    /\ agg_pc = "returned" /\ ~agg_use_cache
    /\ \E k \in TokenKeys :
         LET cache_key == _get_cache_key(TokenValue(k), "reserved_ips") IN
         /\ cache_key \in DOMAIN cache
         /\ tasks[k].call.done /\ ~tasks[k].call.use_cache
         /\ tasks[k].result.status = "success"
         /\ ~tasks[k].exhausted
         /\ tasks[k].result.reserved_ips # cache[cache_key].data

====
